---- MODULE Spec2Model ----
(***************************************************************************)
(* Model of the fabprint plate assembly pipeline:                          *)
(*   orient.py  (orient_mesh, _orient_flat, _drop_to_z0)                   *)
(*   arrange.py (arrange, _center_on_plate)                                *)
(*   plate.py   (_encode_paint_color, build_plate, export_plate,           *)
(*               _inject_paint_data, _inject_extruder_metadata)            *)
(*   cli.py     (_generate_plate)                                          *)
(*   config.py  (load_config)                                              *)
(*   slicer.py  (slice_plate)                                              *)
(*   profiles.py (resolve_profile, resolve_profile_data)                   *)
(*                                                                         *)
(* Lengths are fixed-point integers: one unit is 0.5e-6 mm, so that the    *)
(* 1e-6 tolerance of _drop_to_z0 is Tol = 2 units and values strictly      *)
(* inside, on and outside the tolerance are all representable.             *)
(* A mesh is the sequence of its vertices, its face count and its          *)
(* metadata dict; bounds and extents are computed from the vertices.       *)
(* Rotations are multiples of 90 degrees, which act exactly on integers.   *)
(***************************************************************************)
EXTENDS Integers, Sequences, FiniteSets, TLC

VARIABLES
    o_args,     \* orient_mesh: the arguments of the last call
    o_res,      \* orient_mesh: outcome of the last call
    extruder_idx, \* _encode_paint_color: the argument of the last call
    paint_code, \* _encode_paint_color: the string returned (sequence of characters)
    a_args,     \* arrange: the arguments of the call
    a_res,      \* arrange: outcome of the call
    a_packed,   \* arrange: what packer.rect_list() returned during the call
    scene,      \* build_plate: the trimesh.Scene returned
    archive,    \* export_plate: the 3MF archive it leaves at the output path
    file,       \* the output path on disk, as any process reading it sees it
    x_pc,       \* export_plate run step by step: position and locals
    seen,       \* what a concurrent reader of the output path observed
    gen,        \* _generate_plate: position and locals of the run
    c_args,     \* load_config: the parsed TOML document
    c_res,      \* load_config: outcome of the call
    s_args,     \* slice_plate: arguments and environment of the call
    s_res,      \* slice_plate: outcome of the call and the effects it had
    p_args,     \* resolve_profile_data: argument and profile files on disk
    p_res       \* resolve_profile_data: outcome of the call

vars == <<o_args, o_res, extruder_idx, paint_code, a_args, a_res, a_packed,
          scene, archive, file, x_pc, seen, gen, c_args, c_res, s_args, s_res,
          p_args, p_res>>

\* variables of the export run, and of the entry points outside the plate pipeline
exportVars == <<file, x_pc, seen>>
toolVars == <<gen, c_args, c_res, s_args, s_res, p_args, p_res>>

----------------------------------------------------------------------------
(* Units and small helpers *)

\* 1e-6 (orient.py:74) in model units
Tol == 2
\* one millimetre in model units
MM == 2000000

Abs(n) == IF n < 0 THEN -n ELSE n

RECURSIVE SeqMin(_)
SeqMin(s) ==
    IF Len(s) = 1 THEN Head(s)
    ELSE LET r == SeqMin(Tail(s)) IN IF Head(s) < r THEN Head(s) ELSE r

RECURSIVE SeqMax(_)
SeqMax(s) ==
    IF Len(s) = 1 THEN Head(s)
    ELSE LET r == SeqMax(Tail(s)) IN IF Head(s) > r THEN Head(s) ELSE r

\* Python truthiness of an optional list argument: None and [] are falsy
NoneVal == <<"None">>
Truthy(lst) == lst # NoneVal /\ Len(lst) > 0

----------------------------------------------------------------------------
(* trimesh.Trimesh as used by the pipeline *)

Mesh(verts, faces, metadata) == [verts |-> verts, faces |-> faces, metadata |-> metadata]

\* mesh.bounds[0][k] / mesh.bounds[1][k], k = 1 (X), 2 (Y), 3 (Z)
BoundsMin(m, k) == SeqMin([i \in 1..Len(m.verts) |-> m.verts[i][k]])
BoundsMax(m, k) == SeqMax([i \in 1..Len(m.verts) |-> m.verts[i][k]])
\* mesh.extents[k]
Extent(m, k) == BoundsMax(m, k) - BoundsMin(m, k)

\* mesh.apply_translation([dx, dy, dz])
apply_translation(m, d) ==
    [m EXCEPT !.verts = [i \in 1..Len(m.verts) |->
        <<m.verts[i][1] + d[1], m.verts[i][2] + d[2], m.verts[i][3] + d[3]>>]]

\* a quarter turn in the opposite sense (-90 degrees)
QuarterBack(v, axis) ==
    CASE axis = "x" -> <<v[1], v[3], -v[2]>>
      [] axis = "y" -> <<-v[3], v[2], v[1]>>
      [] axis = "z" -> <<v[2], -v[1], v[3]>>

\* rotation_matrix(radians(90), axis) applied to one vertex
Quarter(v, axis) ==
    CASE axis = "x" -> <<v[1], -v[3], v[2]>>
      [] axis = "y" -> <<v[3], v[2], -v[1]>>
      [] axis = "z" -> <<-v[2], v[1], v[3]>>

RECURSIVE QuarterTurns(_, _, _)
QuarterTurns(v, axis, n) ==
    IF n = 0 THEN v ELSE QuarterTurns(Quarter(v, axis), axis, n - 1)

\* mesh.apply_transform(rotation_matrix(math.radians(deg), axis)), deg a multiple of 90
apply_rotation(m, deg, axis) ==
    [m EXCEPT !.verts = [i \in 1..Len(m.verts) |->
        QuarterTurns(m.verts[i], axis, (deg \div 90) % 4)]]

\* mesh.copy(): a deep copy of vertices, faces and metadata
MeshCopy(m) == Mesh(m.verts, m.faces, m.metadata)

----------------------------------------------------------------------------
(* orient.py *)

\* The rigid transform trimesh.bounds.oriented_bounds (or, when that raises,
\* mesh.principal_inertia_transform) hands back: a rotation followed by a
\* translation.  Which one is the library's choice, so it is an input here.
apply_rigid(m, t) ==
    LET RECURSIVE Turn(_, _)
        Turn(mm, axes) ==
            IF axes = <<>> THEN mm
            ELSE Turn(apply_rotation(mm, 90, Head(axes)), Tail(axes))
    IN apply_translation(Turn(m, t.rot), t.shift)

\* an _orient_flat that trusts the bounding-box transform to leave the
\* smallest extent along Z
_orient_flat_trusting(m, obb) ==
    IF Extent(m, 3) <= Extent(m, 1) /\ Extent(m, 3) <= Extent(m, 2)
    THEN m
    ELSE apply_rigid(m, obb)

\* orient.py:43-68
_orient_flat(m, obb) ==
    IF Extent(m, 3) <= Extent(m, 1) /\ Extent(m, 3) <= Extent(m, 2)
    THEN m  \* already flat
    ELSE LET t == apply_rigid(m, obb)
         IN IF Extent(t, 3) > Extent(t, 1) \/ Extent(t, 3) > Extent(t, 2)
            THEN IF Extent(t, 1) <= Extent(t, 2)
                 THEN apply_rotation(t, 90, "y")
                 ELSE apply_rotation(t, 90, "x")
            ELSE t

\* a _drop_to_z0 that forgets the abs(): a mesh below the bed is left there
_drop_to_z0_noabs(m) ==
    LET min_z == BoundsMin(m, 3)
    IN IF min_z > Tol THEN apply_translation(m, <<0, 0, -min_z>>) ELSE m

\* orient.py:71-75
_drop_to_z0(m) ==
    LET min_z == BoundsMin(m, 3)
    IN IF Abs(min_z) > Tol THEN apply_translation(m, <<0, 0, -min_z>>) ELSE m

\* an `if rotate:` that also tests the components: [0, 0, 0] counts as absent
RotateGivenNonzero(rotate) == Truthy(rotate) /\ \E i \in 1..Len(rotate) : rotate[i] # 0

\* orient.py:22  `if rotate:`
RotateGiven(rotate) == Truthy(rotate)

\* an elif chain whose else branch passes instead of raising
IsKnownStrategyAny(strategy) == TRUE

\* orient.py:30-37  the strategies the elif chain accepts
IsKnownStrategy(strategy) == strategy \in {"flat", "upright", "side"}

\* orient.py:20  `mesh = mesh.copy()`: the work is done on a copy
OrientCopiesInput == TRUE

\* orient.py:11-40.  The outcome is the exception raised ("" for none), the
\* mesh returned (<<>> for none) and the caller's mesh object after the call.
orient_mesh(mesh, strategy, rotate, obb) ==
    LET work == MeshCopy(mesh)
        posed ==
            IF RotateGiven(rotate)
            THEN LET rx == rotate[1]
                     ry == rotate[2]
                     rz == rotate[3]
                     a == IF rx # 0 THEN apply_rotation(work, rx, "x") ELSE work
                     b == IF ry # 0 THEN apply_rotation(a, ry, "y") ELSE a
                 IN IF rz # 0 THEN apply_rotation(b, rz, "z") ELSE b
            ELSE IF strategy = "flat" THEN _orient_flat(work, obb)
            ELSE IF strategy = "side" THEN apply_rotation(work, 90, "x")
            ELSE work  \* upright: keep as-is
        final == _drop_to_z0(posed)
    IN IF ~RotateGiven(rotate) /\ ~IsKnownStrategy(strategy)
       THEN [called |-> TRUE, exc |-> "ValueError", ret |-> <<>>,
             arg |-> IF OrientCopiesInput THEN mesh ELSE work]
       ELSE [called |-> TRUE, exc |-> "", ret |-> <<final>>,
             arg |-> IF OrientCopiesInput THEN mesh ELSE final]

NoMetadata == [x \in {} |-> 0]

\* Meshes handed to orient_mesh: on, above and below the bed, with minimum
\* coordinates strictly inside, on and outside the 1e-6 tolerance.
OrientMeshes ==
    { Mesh(<<<<0, 0, 0>>, <<2 * MM, MM, 3 * MM>>>>, 12, NoMetadata),
      Mesh(<<<<-MM, 1, 1>>, <<MM, 2 * MM, MM + 1>>>>, 12, NoMetadata),
      Mesh(<<<<0, -2, -2>>, <<3 * MM, MM, MM>>>>, 12, NoMetadata),
      Mesh(<<<<0, 3, 3>>, <<MM, MM, 2 * MM>>, <<-3, 2 * MM, MM>>>>, 4, NoMetadata),
      Mesh(<<<<MM, MM, 5 * MM>>, <<2 * MM, 3 * MM, 6 * MM>>>>, 12, NoMetadata),
      Mesh(<<<<0, 0, -3 * MM>>, <<MM, MM, -3>>>>, 12, NoMetadata) }

Strategies == {"flat", "upright", "side", "diagonal", ""}
Angles == {0, 90, 180, -90}
\* rotate: None, or [rx, ry, rz] in degrees
Rotations == {NoneVal} \cup [1..3 -> Angles]
ObbTransforms ==
    { [rot |-> <<>>, shift |-> <<0, 0, 0>>],
      [rot |-> <<"x">>, shift |-> <<0, 0, -MM>>],
      [rot |-> <<"y", "z">>, shift |-> <<-MM, 3, 1>>],
      [rot |-> <<"z">>, shift |-> <<MM, -2, 2 * MM>>] }

NotCalled == [called |-> FALSE]

\* nothing at the output path, no export run and no reader
IdleExport == file = NotCalled /\ x_pc = NotCalled /\ seen = <<>>
\* the entry points outside the plate pipeline are not called
IdleTools ==
    /\ gen = NotCalled
    /\ c_args = NotCalled /\ c_res = NotCalled
    /\ s_args = NotCalled /\ s_res = NotCalled
    /\ p_args = NotCalled /\ p_res = NotCalled

\* the call  orient_mesh(mesh, strategy, rotate)  on the arguments drawn at the start
OrientMesh ==
    /\ o_args.called /\ ~o_res.called
    /\ o_res' = orient_mesh(o_args.mesh, o_args.strategy, o_args.rotate, o_args.obb)
    /\ UNCHANGED <<o_args, extruder_idx, paint_code, a_args, a_res, a_packed, scene, archive>>
    /\ UNCHANGED <<exportVars, toolVars>>

InitOrient ==
    /\ o_args \in [called : {TRUE}, mesh : OrientMeshes, strategy : Strategies,
                   rotate : Rotations, obb : ObbTransforms]
    /\ o_res = NotCalled
    /\ extruder_idx = 0
    /\ paint_code = <<>>
    /\ a_args = NotCalled
    /\ a_res = NotCalled
    /\ a_packed = <<>>
    /\ scene = NotCalled
    /\ archive = NotCalled
    /\ IdleExport /\ IdleTools

NextOrient == OrientMesh

SpecOrient == InitOrient /\ [][NextOrient]_vars

\* C4: every mesh orient_mesh returns (any position of the input, any strategy,
\* any explicit rotation) has its minimum Z within 1e-6 of 0.
C4_ZGrounding ==
    (o_res.called /\ o_res.exc = "") =>
        Abs(BoundsMin(o_res.ret[1], 3)) <= Tol

\* a mesh lying below the bed, outside the tolerance, is lifted onto Z = 0
C4_Witness ==
    /\ o_res.called /\ o_res.exc = ""
    /\ BoundsMin(o_args.mesh, 3) < -Tol
    /\ o_args.strategy = "upright" /\ o_args.rotate = NoneVal
    /\ BoundsMin(o_res.ret[1], 3) = 0

\* C5: with an explicit rotation [rx, ry, rz] the call never raises and its
\* outcome is the one every other strategy string (and every choice of the
\* bounding-box transform, which only "flat" consults) gives.
C5_StrategyIgnored ==
    (o_res.called /\ o_args.rotate # NoneVal) =>
        /\ o_res.exc = ""
        /\ \A s \in Strategies, t \in ObbTransforms :
              orient_mesh(o_args.mesh, s, o_args.rotate, t) = o_res

\* the rotation [0, 0, 0] given together with a strategy outside the valid set
C5_Witness ==
    /\ o_res.called
    /\ o_args.rotate = <<0, 0, 0>>
    /\ o_args.strategy = "diagonal"
    /\ o_res.exc = "" /\ o_res.ret = <<o_args.mesh>>

----------------------------------------------------------------------------
(* plate.py: _encode_paint_color *)

HexDigitsLower == <<"0", "1", "2", "3", "4", "5", "6", "7",
                    "8", "9", "a", "b", "c", "d", "e", "f">>
HexDigitsUpper == <<"0", "1", "2", "3", "4", "5", "6", "7",
                    "8", "9", "A", "B", "C", "D", "E", "F">>

\* format(n, "x"): lowercase digits
RECURSIVE FormatLowerX(_)
FormatLowerX(n) ==
    IF n < 16 THEN <<HexDigitsLower[n + 1]>>
    ELSE Append(FormatLowerX(n \div 16), HexDigitsLower[(n % 16) + 1])

\* format(n, "X") for n >= 0: uppercase hexadecimal, no prefix (plate.py:28)
RECURSIVE FormatUpperX(_)
FormatUpperX(n) ==
    IF n < 16 THEN <<HexDigitsUpper[n + 1]>>
    ELSE Append(FormatUpperX(n \div 16), HexDigitsUpper[(n % 16) + 1])

\* n << k on Python integers
ShiftLeft(n, k) == n * (2 ^ k)

\* plate.py:21-28
_encode_paint_color(extruder_idx_) ==
    LET state == extruder_idx_ + 1
    IN FormatUpperX(ShiftLeft(state, 2))

\* largest extruder index drawn
MaxExtruderIdx == 63

EncodePaintColor ==
    /\ extruder_idx >= 0 /\ paint_code = <<>>
    /\ paint_code' = _encode_paint_color(extruder_idx)
    /\ UNCHANGED <<o_args, o_res, extruder_idx, a_args, a_res, a_packed, scene, archive>>
    /\ UNCHANGED <<exportVars, toolVars>>

InitPaintCode ==
    /\ o_args = NotCalled
    /\ o_res = NotCalled
    /\ extruder_idx \in 0..MaxExtruderIdx
    /\ paint_code = <<>>
    /\ a_args = NotCalled
    /\ a_res = NotCalled
    /\ a_packed = <<>>
    /\ scene = NotCalled
    /\ archive = NotCalled
    /\ IdleExport /\ IdleTools

NextPaintCode == EncodePaintColor

SpecPaintCode == InitPaintCode /\ [][NextPaintCode]_vars

\* value of an uppercase hexadecimal numeral, -1 if a character is no such digit
HexValue(str) ==
    LET Digit(c) == IF \E d \in 1..16 : HexDigitsUpper[d] = c
                    THEN (CHOOSE d \in 1..16 : HexDigitsUpper[d] = c) - 1
                    ELSE -1
        RECURSIVE Val(_)
        Val(t) == IF t = <<>> THEN 0
                  ELSE LET hi == Val(SubSeq(t, 1, Len(t) - 1))
                           lo == Digit(t[Len(t)])
                       IN IF hi < 0 \/ lo < 0 THEN -1 ELSE 16 * hi + lo
    IN Val(str)

\* C7: the code of extruder index e is the uppercase hexadecimal numeral of
\* 4 * (e + 1), with no leading zero (0 -> "4", 1 -> "8", 2 -> "C", 3 -> "10"),
\* and no other index has the same code.
C7_PaintCode ==
    paint_code # <<>> =>
        /\ HexValue(paint_code) = 4 * (extruder_idx + 1)
        /\ paint_code[1] # "0"
        /\ extruder_idx = 0 => paint_code = <<"4">>
        /\ extruder_idx = 1 => paint_code = <<"8">>
        /\ extruder_idx = 2 => paint_code = <<"C">>
        /\ extruder_idx = 3 => paint_code = <<"1", "0">>
        /\ \A e \in 0..MaxExtruderIdx :
              e # extruder_idx => _encode_paint_color(e) # paint_code

\* an index whose code needs a letter digit and more than one digit
C7_Witness == extruder_idx = 10 /\ paint_code = <<"2", "C">>

----------------------------------------------------------------------------
(* arrange.py *)

\* int(v) on a length v (in model units): truncation toward zero, in whole mm
PyInt(v) == IF v >= 0 THEN v \div MM ELSE -((-v) \div MM)

\* v / 2 on floats; the inputs drawn keep every halved quantity even
Half(v) == v \div 2

\* arrange.py:38-41: the padded footprint handed to the packer, in whole mm
RectOf(mesh, padding) ==
    LET w == Extent(mesh, 1) + padding
        h == Extent(mesh, 2) + padding
    IN [w |-> PyInt(w + MM), h |-> PyInt(h + MM)]

\* Two packed rectangles share interior points
RectsOverlap(ax, ay, aw, ah, bx, by, bw, bh) ==
    /\ ax < bx + bw /\ bx < ax + aw
    /\ ay < by + bh /\ by < ay + ah

Unplaced == <<-1, -1>>

\* rectpack (newPacker Offline, MaxRectsBssf, rotation=False, one bin) is a
\* library: what packer.rect_list() may hold after pack() is every layout
\* its contract allows.  A layout gives each rectangle an integer corner or
\* leaves it out; placed rectangles lie inside the bin and do not overlap,
\* and a rectangle is left out only if it fits nowhere in the free space.
Layouts(rects, binW, binH) ==
    LET n == Len(rects)
        Slots == {Unplaced} \cup ((0..(binW - 1)) \X (0..(binH - 1)))
        Inside(i, s) == s[1] + rects[i].w <= binW /\ s[2] + rects[i].h <= binH
        Clash(i, s, j, t) ==
            RectsOverlap(s[1], s[2], rects[i].w, rects[i].h,
                         t[1], t[2], rects[j].w, rects[j].h)
        Valid(f) ==
            /\ \A i \in 1..n : f[i] # Unplaced => Inside(i, f[i])
            /\ \A i, j \in 1..n :
                  (i < j /\ f[i] # Unplaced /\ f[j] # Unplaced)
                      => ~Clash(i, f[i], j, f[j])
            /\ \A i \in 1..n : f[i] = Unplaced =>
                  ~\E s \in Slots \ {Unplaced} :
                      /\ Inside(i, s)
                      /\ \A j \in 1..n : f[j] # Unplaced => ~Clash(i, s, j, f[j])
    IN {f \in [1..n -> Slots] : Valid(f)}

\* packer.rect_list(): the placed rectangles (bin, x, y, w, h, rid), in the
\* packer's own order; rid is the index of the mesh (1-based here)
RectLists(rects, binW, binH) ==
    UNION { LET placed == {i \in 1..Len(rects) : f[i] # Unplaced}
                k == Cardinality(placed)
            IN { [p \in 1..k |->
                    [bin |-> 0, x |-> f[ord[p]][1], y |-> f[ord[p]][2],
                     w |-> rects[ord[p]].w, h |-> rects[ord[p]].h, rid |-> ord[p]]] :
                 ord \in {o \in [1..k -> placed] :
                            \A a, b \in 1..k : a # b => o[a] # o[b]} }
          : f \in Layouts(rects, binW, binH) }

Placement(mesh, name, x, y) == [mesh |-> mesh, name |-> name, x |-> x, y |-> y]

\* a centering pass that moves the group's minimum corner, not its centre, to
\* the plate centre
_center_on_plate_corner(placements, plate_size) ==
    IF placements = <<>> THEN placements
    ELSE
    LET n == Len(placements)
        all_min_x == SeqMin([i \in 1..n |-> BoundsMin(placements[i].mesh, 1)])
        all_min_y == SeqMin([i \in 1..n |-> BoundsMin(placements[i].mesh, 2)])
        dx == Half(plate_size[1]) - all_min_x
        dy == Half(plate_size[2]) - all_min_y
    IN [i \in 1..n |->
          Placement(apply_translation(placements[i].mesh, <<dx, dy, 0>>),
                    placements[i].name, placements[i].x + dx, placements[i].y + dy)]

\* arrange.py:78-100
_center_on_plate(placements, plate_size) ==
    IF placements = <<>> THEN placements
    ELSE
    LET n == Len(placements)
        all_min_x == SeqMin([i \in 1..n |-> BoundsMin(placements[i].mesh, 1)])
        all_max_x == SeqMax([i \in 1..n |-> BoundsMax(placements[i].mesh, 1)])
        all_min_y == SeqMin([i \in 1..n |-> BoundsMin(placements[i].mesh, 2)])
        all_max_y == SeqMax([i \in 1..n |-> BoundsMax(placements[i].mesh, 2)])
        group_cx == Half(all_min_x + all_max_x)
        group_cy == Half(all_min_y + all_max_y)
        plate_cx == Half(plate_size[1])
        plate_cy == Half(plate_size[2])
        dx == plate_cx - group_cx
        dy == plate_cy - group_cy
    IN [i \in 1..n |->
          Placement(apply_translation(placements[i].mesh, <<dx, dy, 0>>),
                    placements[i].name, placements[i].x + dx, placements[i].y + dy)]

\* arrange.py:63  `mesh = meshes[rid].copy()`: each placement owns a copy
ArrangeCopiesMesh == TRUE

\* arrange.py:33  `len(meshes) != len(names)`
LengthsDiffer(meshes, names) == Len(meshes) # Len(names)

\* a capacity check that only rejects an empty packing
PackedShortNone(packed, meshes) == Len(packed) = 0 /\ Len(meshes) > 0

\* arrange.py:55  `len(packed) != len(meshes)`
PackedShort(packed, meshes) == Len(packed) # Len(meshes)

\* a placement loop that takes the name at the position in the packer's list
PlacePackedNameByOrder(meshes, names, padding, packed) ==
    [p \in 1..Len(packed) |->
        LET rid == packed[p].rid
            mesh == MeshCopy(meshes[rid])
            min_x == BoundsMin(mesh, 1)
            min_y == BoundsMin(mesh, 2)
            offset_x == packed[p].x * MM + Half(padding) - min_x
            offset_y == packed[p].y * MM + Half(padding) - min_y
        IN Placement(apply_translation(mesh, <<offset_x, offset_y, 0>>),
                     names[p], packed[p].x * MM, packed[p].y * MM)]

\* a placement that moves the mesh's origin, not its bounding-box minimum, to
\* the packed position
PlacePackedByOrigin(meshes, names, padding, packed) ==
    [p \in 1..Len(packed) |->
        LET rid == packed[p].rid
            mesh == MeshCopy(meshes[rid])
            offset_x == packed[p].x * MM + Half(padding)
            offset_y == packed[p].y * MM + Half(padding)
        IN Placement(apply_translation(mesh, <<offset_x, offset_y, 0>>),
                     names[rid], packed[p].x * MM, packed[p].y * MM)]

\* arrange.py:61-69: one placement per packed rectangle, before centering
PlacePacked(meshes, names, padding, packed) ==
    [p \in 1..Len(packed) |->
        LET rid == packed[p].rid
            mesh == MeshCopy(meshes[rid])
            min_x == BoundsMin(mesh, 1)
            min_y == BoundsMin(mesh, 2)
            offset_x == packed[p].x * MM + Half(padding) - min_x
            offset_y == packed[p].y * MM + Half(padding) - min_y
        IN Placement(apply_translation(mesh, <<offset_x, offset_y, 0>>),
                     names[rid], packed[p].x * MM, packed[p].y * MM)]

\* arrange.py:22-75, given what packer.rect_list() returned.  The outcome is
\* the exception and its message, the list returned (<<>> for none, else
\* <<placements>>) and the caller's meshes and names lists after the call.
arrange(meshes, names, plate_size, padding, packed) ==
    IF LengthsDiffer(meshes, names)
    THEN [called |-> TRUE, exc |-> "ValueError",
          msg |-> [text |-> "meshes and names must have the same length"],
          ret |-> <<>>, meshes |-> meshes, names |-> names]
    ELSE IF PackedShort(packed, meshes)
    THEN [called |-> TRUE, exc |-> "ValueError",
          msg |-> [text |-> "Only {placed}/{total} parts fit on the {w}x{h}mm plate",
                   placed |-> Len(packed), total |-> Len(meshes),
                   w |-> plate_size[1], h |-> plate_size[2]],
          ret |-> <<>>, meshes |-> meshes, names |-> names]
    ELSE LET placed == PlacePacked(meshes, names, padding, packed)
             placements == _center_on_plate(placed, plate_size)
         IN [called |-> TRUE, exc |-> "", msg |-> [text |-> ""],
             ret |-> <<placements>>,
             meshes |-> IF ArrangeCopiesMesh THEN meshes
                        ELSE [i \in 1..Len(meshes) |->
                                IF \E p \in 1..Len(packed) : packed[p].rid = i
                                THEN placements[CHOOSE p \in 1..Len(packed) :
                                                    packed[p].rid = i].mesh
                                ELSE meshes[i]],
             names |-> names]

\* most meshes in one call
MaxMeshes == 2

\* Meshes handed to arrange: sitting on Z = 0, bounding-box minimum at and away
\* from the origin, whole and fractional extents.
ArrangeMeshes ==
    { Mesh(<<<<0, 0, 0>>, <<MM, MM, MM>>>>, 12, NoMetadata),
      Mesh(<<<<-MM, 2 * MM, 0>>, <<MM \div 2, 3 * MM + MM \div 2, MM>>>>, 12, NoMetadata),
      Mesh(<<<<MM, -MM, 0>>, <<3 * MM + MM \div 2, MM, 2 * MM>>>>, 12, NoMetadata) }

NamePool == <<"cube", "cylinder", "cube", "big">>
\* names lists: distinct names, names with a repeat, one name for every mesh
\* (two parts whose files have the same stem)
NameLists(k) == { [i \in 1..k |-> NamePool[i]], [i \in 1..k |-> NamePool[i + 1]],
                  [i \in 1..k |-> NamePool[1]] }

PlateSizes == { <<3 * MM, 3 * MM>>, <<3 * MM + MM \div 2, 2 * MM>>, <<2 * MM, 5 * MM>> }
Paddings == { -MM, 0, MM }

SeqsUpTo(S, n) == UNION { [1..k -> S] : k \in 0..n }

\* the call  arrange(meshes, names, plate_size, padding)  on the arguments drawn
\* at the start; the packer is run only when the lengths agree
Arrange ==
    /\ a_args.called /\ ~a_res.called
    /\ LET rects == [i \in 1..Len(a_args.meshes) |->
                        RectOf(a_args.meshes[i], a_args.padding)]
           binW == PyInt(a_args.plate_size[1])
           binH == PyInt(a_args.plate_size[2])
       IN IF LengthsDiffer(a_args.meshes, a_args.names)
          THEN /\ a_packed' = <<>>
               /\ a_res' = arrange(a_args.meshes, a_args.names, a_args.plate_size,
                                   a_args.padding, <<>>)
          ELSE \E rect_list \in RectLists(rects, binW, binH) :
                  /\ a_packed' = rect_list
                  /\ a_res' = arrange(a_args.meshes, a_args.names, a_args.plate_size,
                                      a_args.padding, rect_list)
    /\ UNCHANGED <<a_args, o_args, o_res, extruder_idx, paint_code, scene, archive>>
    /\ UNCHANGED <<exportVars, toolVars>>

InitArrange ==
    /\ o_args = NotCalled
    /\ o_res = NotCalled
    /\ extruder_idx = -1
    /\ paint_code = <<>>
    /\ \E meshes \in SeqsUpTo(ArrangeMeshes, MaxMeshes), k \in 0..MaxMeshes :
       \E names \in NameLists(k), plate_size \in PlateSizes, padding \in Paddings :
          a_args = [called |-> TRUE, meshes |-> meshes, names |-> names,
                    plate_size |-> plate_size, padding |-> padding]
    /\ a_res = NotCalled
    /\ a_packed = <<>>
    /\ scene = NotCalled
    /\ archive = NotCalled
    /\ IdleExport /\ IdleTools

NextArrange == Arrange

SpecArrange == InitArrange /\ [][NextArrange]_vars

\* both entry points, each on its own arguments
InitContract == InitOrient \/ InitArrange

NextContract == OrientMesh \/ Arrange

SpecContract == InitContract /\ [][NextContract]_vars

Placements == a_res.ret[1]
Returned == a_res.called /\ a_res.exc = ""

\* C1: every placement arrange returns has its mesh's XY bounding box inside
\* [0, plate_w] x [0, plate_h] (after the centering pass).
C1_Containment ==
    Returned =>
        \A p \in 1..Len(Placements) :
            /\ 0 <= BoundsMin(Placements[p].mesh, 1)
            /\ BoundsMax(Placements[p].mesh, 1) <= a_args.plate_size[1]
            /\ 0 <= BoundsMin(Placements[p].mesh, 2)
            /\ BoundsMax(Placements[p].mesh, 2) <= a_args.plate_size[2]

\* C1 restricted to padding >= 0
C1_ContainmentNonNegativePadding == a_args.called /\ a_args.padding >= 0 => C1_Containment

BoxesOverlap(aminx, aminy, amaxx, amaxy, bminx, bminy, bmaxx, bmaxy) ==
    /\ aminx < bmaxx /\ amaxx > bminx
    /\ aminy < bmaxy /\ amaxy > bminy

PaddedOverlap(a, b, padding) ==
    BoxesOverlap(BoundsMin(a, 1) - Half(padding), BoundsMin(a, 2) - Half(padding),
                 BoundsMax(a, 1) + Half(padding), BoundsMax(a, 2) + Half(padding),
                 BoundsMin(b, 1) - Half(padding), BoundsMin(b, 2) - Half(padding),
                 BoundsMax(b, 1) + Half(padding), BoundsMax(b, 2) + Half(padding))

MeshOverlap(a, b) ==
    BoxesOverlap(BoundsMin(a, 1), BoundsMin(a, 2), BoundsMax(a, 1), BoundsMax(a, 2),
                 BoundsMin(b, 1), BoundsMin(b, 2), BoundsMax(b, 1), BoundsMax(b, 2))

\* C2: for every pair of distinct placements returned, the XY bounding boxes
\* grown by padding/2 on every side do not overlap, and neither do the meshes'
\* own XY bounding boxes (after the centering pass).
C2_NonOverlap ==
    Returned =>
        \A p, q \in 1..Len(Placements) :
            p # q =>
                /\ ~PaddedOverlap(Placements[p].mesh, Placements[q].mesh, a_args.padding)
                /\ ~MeshOverlap(Placements[p].mesh, Placements[q].mesh)

\* C2 restricted to padding >= 0
C2_NonOverlapNonNegativePadding == a_args.called /\ a_args.padding >= 0 => C2_NonOverlap

\* m is m0 moved in the XY plane: same faces and metadata, Z untouched
IsXYTranslate(m, m0) ==
    /\ m.faces = m0.faces /\ m.metadata = m0.metadata
    /\ Len(m.verts) = Len(m0.verts)
    /\ \A i \in 1..Len(m.verts) :
          /\ m.verts[i][3] = m0.verts[i][3]
          /\ m.verts[i][1] - m0.verts[i][1] = m.verts[1][1] - m0.verts[1][1]
          /\ m.verts[i][2] - m0.verts[i][2] = m.verts[1][2] - m0.verts[1][2]

\* one placement per submitted mesh, every input index exactly once
ReturnsAll ==
    /\ a_res.exc = ""
    /\ Len(Placements) = Len(a_args.meshes)
    /\ \E ord \in [1..Len(Placements) -> 1..Len(a_args.meshes)] :
          /\ \A p, q \in 1..Len(Placements) : p # q => ord[p] # ord[q]
          /\ \A p \in 1..Len(Placements) :
                /\ Placements[p].name = a_args.names[ord[p]]
                /\ IsXYTranslate(Placements[p].mesh, a_args.meshes[ord[p]])

\* ValueError reporting placed/total and the plate dimensions, nothing returned
RaisesCapacity ==
    /\ a_res.exc = "ValueError" /\ a_res.ret = <<>>
    /\ a_res.msg.text = "Only {placed}/{total} parts fit on the {w}x{h}mm plate"
    /\ a_res.msg.placed = Len(a_packed)
    /\ a_res.msg.total = Len(a_args.meshes)
    /\ a_res.msg.w = a_args.plate_size[1] /\ a_res.msg.h = a_args.plate_size[2]

C6_RejectedBeforeMutation ==
    /\ (o_res.called /\ o_args.rotate = NoneVal
            /\ o_args.strategy \notin {"flat", "upright", "side"}) =>
          /\ o_res.exc = "ValueError" /\ o_res.ret = <<>>
          /\ o_res.arg = o_args.mesh
    /\ (a_res.called /\ Len(a_args.meshes) # Len(a_args.names)) =>
          /\ a_res.exc = "ValueError" /\ a_res.ret = <<>>
          /\ a_res.meshes = a_args.meshes /\ a_res.names = a_args.names
          /\ a_packed = <<>>

\* arrange rejected a call with more names than meshes
C6_Witness ==
    /\ a_res.called /\ Len(a_args.names) > Len(a_args.meshes)
    /\ Len(a_args.meshes) > 0
    /\ a_res.exc = "ValueError" /\ a_res.ret = <<>>


----------------------------------------------------------------------------
(* plate.py: build_plate, export_plate and the two injection passes *)

\* geom.metadata.get("paint_colors") is truthy: the key is there with a
\* non-empty list
HasPaint(metadata) ==
    "paint_colors" \in DOMAIN metadata /\ Len(metadata.paint_colors) > 0

\* geom.metadata.get("filament_id") is truthy: the key is there and not 0
HasFilament(metadata) ==
    "filament_id" \in DOMAIN metadata /\ metadata.filament_id # 0

\* a scene that stores a geometry under its name as it is, replacing the one
\* already stored under that name
add_geometry_overwrite(sc, mesh, node_name) ==
    LET base == mesh.metadata.name
        same == {i \in 1..Len(sc.geometry) : sc.geometry[i].key.base = base}
    IN IF same = {}
       THEN [sc EXCEPT !.geometry = Append(@, [key |-> [base |-> base, n |-> 0],
                                              mesh |-> mesh]),
                       !.nodes = Append(@, node_name)]
       ELSE [sc EXCEPT !.geometry = [i \in 1..Len(@) |->
                                        IF i \in same THEN [@[i] EXCEPT !.mesh = mesh]
                                        ELSE @[i]]]

\* trimesh.Scene.add_geometry(mesh, node_name=...): the geometry is stored
\* under its metadata name, made unique among the keys already there, and
\* keeps its place in insertion order
add_geometry(sc, mesh, node_name) ==
    LET base == mesh.metadata.name
        same == Cardinality({i \in 1..Len(sc.geometry) : sc.geometry[i].key.base = base})
    IN [sc EXCEPT !.geometry = Append(@, [key |-> [base |-> base, n |-> same],
                                         mesh |-> mesh]),
                  !.nodes = Append(@, node_name)]

\* a build_plate that shifts by the whole plate size instead of half of it
build_plate_corner(placements, plate_size) ==
    LET RECURSIVE Add(_, _)
        Add(sc, i) ==
            IF i > Len(placements) THEN sc
            ELSE LET p == placements[i]
                     moved == apply_translation(MeshCopy(p.mesh),
                                                <<-plate_size[1], -plate_size[2], 0>>)
                     mesh == [moved EXCEPT !.metadata = ("name" :> p.name) @@ @]
                 IN Add(add_geometry(sc, mesh, p.name), i + 1)
    IN Add([called |-> TRUE, geometry |-> <<>>, nodes |-> <<>>], 1)

\* plate.py:31-47
build_plate(placements, plate_size) ==
    LET cx == Half(plate_size[1])
        cy == Half(plate_size[2])
        RECURSIVE Add(_, _)
        Add(sc, i) ==
            IF i > Len(placements) THEN sc
            ELSE LET p == placements[i]
                     moved == apply_translation(MeshCopy(p.mesh), <<-cx, -cy, 0>>)
                     mesh == [moved EXCEPT !.metadata = ("name" :> p.name) @@ @]
                 IN Add(add_geometry(sc, mesh, p.name), i + 1)
    IN Add([called |-> TRUE, geometry |-> <<>>, nodes |-> <<>>], 1)

\* list(scene.geometry.values())
Geometries(sc) == [i \in 1..Len(sc.geometry) |-> sc.geometry[i].mesh]

\* namespace prefixes the serializer declares on <model>, and those among
\* them that elements or attributes of the document use
DeclaredPrefixes == {"", "m", "p", "b", "s", "sc"}
UsedPrefixes == {"", "p"}

MODEL_PATH == "3D/3dmodel.model"
SETTINGS_PATH == "Metadata/model_settings.config"

Member(name, data) == [name |-> name, data |-> data]

\* the bytes at the output path: the members written so far, and whether the
\* zip's central directory has been written (the archive can be opened)
OnDisk(members, closed) == [called |-> TRUE, members |-> members, closed |-> closed]
AsArchive(f) == [called |-> TRUE, members |-> f.members]

\* scene.export(str(output)), plate.py:54: the archive trimesh writes.  The
\* model document holds one <object> per geometry, in insertion order, with
\* ids counted from 1 and one <triangle> per face, followed by `extra`
\* objects without a mesh (components).
Serialize(sc, extra) ==
    LET n == Len(sc.geometry)
        MeshObject(i) ==
            [id |-> i, name |-> sc.geometry[i].key,
             triangles |-> [j \in 1..sc.geometry[i].mesh.faces |-> [v |-> j]]]
        ComponentObject(i) ==
            [id |-> i, name |-> [base |-> "component", n |-> i], triangles |-> <<>>]
        doc == [kind |-> "model", xml_decl |-> TRUE, open_xmlns |-> DeclaredPrefixes,
                used |-> UsedPrefixes,
                objects |-> [i \in 1..(n + extra) |->
                                IF i <= n THEN MeshObject(i) ELSE ComponentObject(i)],
                metadata |-> <<>>]
    IN [called |-> TRUE,
        members |-> << Member("[Content_Types].xml", [kind |-> "text", text |-> "types"]),
                       Member("_rels/.rels", [kind |-> "text", text |-> "rels"]),
                       Member(MODEL_PATH, doc) >>]

\* zf.read(name): the data of the last member of that name
ZipRead(ar, name) ==
    ar.members[CHOOSE i \in 1..Len(ar.members) :
                  /\ ar.members[i].name = name
                  /\ \A j \in (i + 1)..Len(ar.members) : ar.members[j].name # name].data

\* SafeET.fromstring(model_xml): the element tree; the declarations of the
\* opening tag are not part of it, only the namespaces in use are
SafeET_fromstring(doc) ==
    [used |-> doc.used, objects |-> doc.objects, metadata |-> doc.metadata]

\* ET.tostring(root, encoding="unicode", xml_declaration=True): declares on
\* the root only the namespaces the tree uses
ET_tostring(root) ==
    [kind |-> "model", xml_decl |-> TRUE, open_xmlns |-> root.used, used |-> root.used,
     objects |-> root.objects, metadata |-> root.metadata]

\* a pass that keeps the opening tag the serializer of the tree wrote
RestoreOpenTagNever(new_xml, orig) == new_xml

\* plate.py:170-174: put the original opening <model ...> tag back.  Both
\* patterns are anchored on an XML declaration directly followed by <model;
\* without a match on both sides the new document is written as it is.
RestoreOpenTag(new_xml, orig) ==
    IF orig.xml_decl /\ new_xml.xml_decl
    THEN [new_xml EXCEPT !.open_xmlns = orig.open_xmlns]
    ELSE new_xml

\* a guard that also fires on a config-assigned filament slot
PaintGuardOrFilament(geometries) ==
    \E i \in 1..Len(geometries) :
        HasPaint(geometries[i].metadata) \/ HasFilament(geometries[i].metadata)

\* plate.py:124  `any(geom.metadata.get("paint_colors") for geom in geometries)`
PaintGuard(geometries) ==
    \E i \in 1..Len(geometries) : HasPaint(geometries[i].metadata)

\* a triangle loop that paints null entries as well
PaintTriangleAlways(tri, paint_colors, j) ==
    IF j <= Len(paint_colors)
    THEN ("paint_color" :> paint_colors[j]) @@ tri
    ELSE tri

\* a triangle loop that starts the list over when it runs out of entries
PaintTriangleWrap(tri, paint_colors, j) ==
    LET c == paint_colors[((j - 1) % Len(paint_colors)) + 1]
    IN IF c # NoneVal THEN ("paint_color" :> c) @@ tri ELSE tri

\* plate.py:157-158: tri.set("paint_color", paint_colors[j]) when the j-th
\* entry exists and is not None
PaintTriangle(tri, paint_colors, j) ==
    IF j <= Len(paint_colors) /\ paint_colors[j] # NoneVal
    THEN ("paint_color" :> paint_colors[j]) @@ tri
    ELSE tri

\* plate.py:146-158: the i-th <object> takes the colors of the i-th geometry
PaintObjects(objects, geometries) ==
    [i \in 1..Len(objects) |->
        IF i > Len(geometries) THEN objects[i]
        ELSE IF ~HasPaint(geometries[i].metadata) THEN objects[i]
        ELSE [objects[i] EXCEPT !.triangles =
                [j \in 1..Len(objects[i].triangles) |->
                    PaintTriangle(objects[i].triangles[j],
                                  geometries[i].metadata.paint_colors, j)]]]

\* plate.py:108-179
_inject_paint_data(ar, sc) ==
    LET geometries == Geometries(sc)
    IN IF ~PaintGuard(geometries) THEN ar
       ELSE LET model_xml == ZipRead(ar, MODEL_PATH)
                names == [i \in 1..Len(ar.members) |-> ar.members[i].name]
                \* other_files: a dict, so one entry per name, in first-seen order
                keep == {i \in 1..Len(names) :
                            /\ names[i] # MODEL_PATH
                            /\ \A j \in 1..(i - 1) : names[j] # names[i]}
                RECURSIVE Others(_)
                Others(i) ==
                    IF i > Len(names) THEN <<>>
                    ELSE IF i \in keep
                         THEN <<Member(names[i], ZipRead(ar, names[i]))>> \o Others(i + 1)
                         ELSE Others(i + 1)
                root == SafeET_fromstring(model_xml)
                painted == [root EXCEPT
                              !.objects = PaintObjects(root.objects, geometries),
                              !.metadata = Append(@,
                                  [name |-> "BambuStudio:MmPaintingVersion", text |-> "0"])]
                new_xml == RestoreOpenTag(ET_tostring(painted), model_xml)
            IN [ar EXCEPT !.members = <<Member(MODEL_PATH, new_xml)>> \o Others(1)]

\* a guard that skips the pass when some geometry has no slot
ExtruderGuardAll(geometries) ==
    \A i \in 1..Len(geometries) : HasFilament(geometries[i].metadata)

\* plate.py:72  `any(geom.metadata.get("filament_id") for geom in geometries)`
ExtruderGuard(geometries) ==
    \E i \in 1..Len(geometries) : HasFilament(geometries[i].metadata)

\* plate.py:82-92: the <object> entries of model_settings.config
ConfigEntries(objects, geometries) ==
    LET RECURSIVE Lines(_)
        Lines(i) ==
            IF i > Len(objects) \/ i > Len(geometries) THEN <<>>
            ELSE IF HasFilament(geometries[i].metadata)
                 THEN <<[id |-> objects[i].id,
                         extruder |-> geometries[i].metadata.filament_id]>>
                      \o Lines(i + 1)
                 ELSE Lines(i + 1)
    IN Lines(1)

\* an extruder pass that writes a new archive holding only the model document
\* and model_settings.config
_inject_extruder_metadata_only(ar, sc) ==
    LET geometries == Geometries(sc)
    IN IF ~ExtruderGuard(geometries) THEN ar
       ELSE LET model_xml == ZipRead(ar, MODEL_PATH)
                root == SafeET_fromstring(model_xml)
                model_settings == [kind |-> "config",
                                   entries |-> ConfigEntries(root.objects, geometries)]
            IN [ar EXCEPT !.members = << Member(MODEL_PATH, model_xml),
                                         Member(SETTINGS_PATH, model_settings) >>]

\* plate.py:61-105
_inject_extruder_metadata(ar, sc) ==
    LET geometries == Geometries(sc)
    IN IF ~ExtruderGuard(geometries) THEN ar
       ELSE LET root == SafeET_fromstring(ZipRead(ar, MODEL_PATH))
                model_settings == [kind |-> "config",
                                   entries |-> ConfigEntries(root.objects, geometries)]
            IN [ar EXCEPT !.members = Append(@, Member(SETTINGS_PATH, model_settings))]

\* plate.py:50-58
export_plate(sc, extra) ==
    _inject_extruder_metadata(_inject_paint_data(Serialize(sc, extra), sc), sc)

\* objects the serializer may add after the mesh objects
MaxExtraObjects == 1
\* highest filament slot drawn
MaxFilament == 2

Box1 == <<<<0, 0, 0>>, <<MM, MM, MM>>>>
Color(e) == _encode_paint_color(e)

\* Meshes for the export pipeline: with and without a filament slot, with and
\* without per-face paint colors (full lists, lists with nulls, an empty list)
PlateMetadata ==
    {NoMetadata}
    \cup {[filament_id |-> f] : f \in 1..MaxFilament}
    \cup {[paint_colors |-> c] : c \in {<<Color(0), NoneVal>>, <<Color(3), Color(2)>>}}
    \cup {[filament_id |-> 1, paint_colors |-> <<NoneVal, Color(1)>>],
          [filament_id |-> 2, paint_colors |-> <<>>]}
PlateMeshes ==
    {Mesh(Box1, 2, md) : md \in PlateMetadata}
    \cup {Mesh(Box1, 3, [filament_id |-> 1,
                         paint_colors |-> <<Color(2), NoneVal, Color(0)>>]),
          Mesh(Box1, 3, [paint_colors |-> <<Color(1)>>])}

\* a build_plate that shifts the placements' own meshes
BuildSharesMesh == FALSE

\* plate.py:42  `mesh = p.mesh.copy()`: the scene holds copies
BuildCopiesMesh == TRUE

\* the caller's placements after build_plate(placements, plate_size) returned
PlacementsAfterBuild(placements, plate_size) ==
    IF BuildCopiesMesh THEN placements
    ELSE [i \in 1..Len(placements) |->
            [placements[i] EXCEPT !.mesh =
                [apply_translation(@, <<-Half(plate_size[1]), -Half(plate_size[2]), 0>>)
                    EXCEPT !.metadata = ("name" :> placements[i].name) @@ @]]]

BuildPlate ==
    /\ a_res.called /\ a_res.exc = "" /\ ~scene.called
    /\ scene' = build_plate(a_res.ret[1], a_args.plate_size)
    /\ a_res' = [a_res EXCEPT !.ret = <<PlacementsAfterBuild(a_res.ret[1], a_args.plate_size)>>]
    /\ UNCHANGED <<o_args, o_res, extruder_idx, paint_code, a_args, a_packed, archive>>
    /\ UNCHANGED <<exportVars, toolVars>>

ExportPlate ==
    /\ scene.called /\ ~archive.called
    /\ \E extra \in 0..MaxExtraObjects : archive' = export_plate(scene, extra)
    /\ file' = OnDisk(archive'.members, TRUE)
    /\ UNCHANGED <<o_args, o_res, extruder_idx, paint_code, a_args, a_res, a_packed,
                   scene>>
    /\ UNCHANGED <<x_pc, seen, toolVars>>

InitPlate ==
    /\ o_args = NotCalled
    /\ o_res = NotCalled
    /\ extruder_idx = -1
    /\ paint_code = <<>>
    /\ \E meshes \in SeqsUpTo(PlateMeshes, MaxMeshes) :
       \E names \in NameLists(Len(meshes)) :
          a_args = [called |-> TRUE, meshes |-> meshes, names |-> names,
                    plate_size |-> <<6 * MM, 2 * MM>>, padding |-> 0]
    /\ a_res = NotCalled
    /\ a_packed = <<>>
    /\ scene = NotCalled
    /\ archive = NotCalled
    /\ IdleExport /\ IdleTools

NextPlate == Arrange \/ BuildPlate \/ ExportPlate

SpecPlate == InitPlate /\ [][NextPlate]_vars


\* the exported model document and settings document
Doc == ZipRead(archive, MODEL_PATH)
SceneGeometries == Geometries(scene)
SettingsMembers == {i \in 1..Len(archive.members) : archive.members[i].name = SETTINGS_PATH}
HasPaintAttr(tri) == "paint_color" \in DOMAIN tri

\* C8: paint round trip through arrange, build_plate and export_plate: for a
\* submitted mesh with N faces and a paint color list of length N, the
\* <object> written for it (the p-th, for the p-th packed rectangle) has N
\* triangles, the j-th carrying paint_color = list[j] when that entry is not
\* null and no paint_color attribute when it is.
C8_PaintRoundTrip ==
    archive.called =>
        \A p \in 1..Len(a_packed) :
            LET src == a_args.meshes[a_packed[p].rid]
                obj == Doc.objects[p]
            IN ("paint_colors" \in DOMAIN src.metadata
                    /\ Len(src.metadata.paint_colors) = src.faces) =>
                  /\ Len(obj.triangles) = src.faces
                  /\ \A j \in 1..src.faces :
                        LET c == src.metadata.paint_colors[j]
                            tri == obj.triangles[j]
                        IN IF c # NoneVal
                           THEN HasPaintAttr(tri) /\ tri.paint_color = c
                           ELSE ~HasPaintAttr(tri)

\* two painted meshes, packed in the reverse of the input order, one of them
\* with a null entry
C8_Witness ==
    /\ archive.called /\ Len(a_packed) = 2
    /\ a_packed[1].rid = 2
    /\ a_args.meshes[1].faces = 3
    /\ a_args.meshes[1].metadata = [filament_id |-> 1,
                                    paint_colors |-> <<Color(2), NoneVal, Color(0)>>]
    /\ a_args.meshes[2].metadata = [paint_colors |-> <<Color(3), Color(2)>>]
    /\ Doc.objects[2].triangles[1].paint_color = <<"C">>
    /\ ~HasPaintAttr(Doc.objects[2].triangles[2])
    /\ Doc.objects[1].triangles[1].paint_color = <<"1", "0">>

\* C9: when no geometry of the scene carries a non-empty paint color list,
\* whatever filament slots the geometries carry, the exported model document
\* has no paint_color attribute on any triangle and no
\* BambuStudio:MmPaintingVersion metadata element.
C9_NoSpuriousPaint ==
    (archive.called
        /\ \A i \in 1..Len(SceneGeometries) : ~HasPaint(SceneGeometries[i].metadata)) =>
        /\ \A i \in 1..Len(Doc.objects) :
              \A j \in 1..Len(Doc.objects[i].triangles) :
                  ~HasPaintAttr(Doc.objects[i].triangles[j])
        /\ \A k \in 1..Len(Doc.metadata) :
              Doc.metadata[k].name # "BambuStudio:MmPaintingVersion"

\* two parts with filament slots (one with an empty paint list), no paint data
C9_Witness ==
    /\ archive.called /\ Len(SceneGeometries) = 2
    /\ HasFilament(SceneGeometries[1].metadata)
    /\ HasFilament(SceneGeometries[2].metadata)
    /\ SceneGeometries[1].metadata.filament_id = 1
    /\ SceneGeometries[2].metadata.filament_id = 2
    /\ "paint_colors" \in DOMAIN SceneGeometries[2].metadata
    /\ Doc.metadata = <<>>
    /\ SettingsMembers # {}

Min(a, b) == IF a < b THEN a ELSE b

\* C10: when some geometry carries a filament slot, the archive holds one
\* Metadata/model_settings.config whose <object> entries are, for each index i
\* below the object count and the geometry count, exactly one entry if
\* geometry i has a slot and none otherwise, with the id of the i-th <object>
\* of the model document and the geometry's slot as extruder value; when no
\* geometry carries a slot the archive has no model_settings.config.
C10_ExtruderMetadata ==
    archive.called =>
        IF \E i \in 1..Len(SceneGeometries) : HasFilament(SceneGeometries[i].metadata)
        THEN /\ Cardinality(SettingsMembers) = 1
             /\ LET entries == ZipRead(archive, SETTINGS_PATH).entries
                    both == Min(Len(Doc.objects), Len(SceneGeometries))
                    For(i) == {k \in 1..Len(entries) : entries[k].id = Doc.objects[i].id}
                IN /\ \A i \in 1..both :
                         IF HasFilament(SceneGeometries[i].metadata)
                         THEN /\ Cardinality(For(i)) = 1
                              /\ \A k \in For(i) :
                                    entries[k].extruder =
                                        SceneGeometries[i].metadata.filament_id
                         ELSE For(i) = {}
                   /\ \A k \in 1..Len(entries) : \E i \in 1..both : k \in For(i)
        ELSE SettingsMembers = {}

\* a painted part without a slot packed first, a part with slot 2 second: one
\* entry, for object id 2
C10_Witness ==
    /\ archive.called /\ Len(SceneGeometries) = 2
    /\ ~HasFilament(SceneGeometries[1].metadata) /\ HasPaint(SceneGeometries[1].metadata)
    /\ HasFilament(SceneGeometries[2].metadata)
    /\ Len(Doc.objects) = 3
    /\ ZipRead(archive, SETTINGS_PATH).entries = <<[id |-> 2, extruder |-> 2]>>


----------------------------------------------------------------------------
(* export_plate's two passes, one file operation at a time *)

\* observations a concurrent reader makes during one run
MaxReads == 1

\* plate.py:119-174: _inject_paint_data up to the point where it has the new
\* document in memory; nothing is written yet
PaintBegin ==
    /\ x_pc.called /\ x_pc.pc = "paint"
    /\ IF ~PaintGuard(Geometries(scene))
       THEN x_pc' = [x_pc EXCEPT !.pc = "extruder"]
       ELSE x_pc' = [x_pc EXCEPT !.pc = "paint_open",
                                 !.before = AsArchive(file),
                                 !.target = _inject_paint_data(AsArchive(file), scene)]
    /\ UNCHANGED <<o_args, o_res, extruder_idx, paint_code, a_args, a_res, a_packed,
                   scene, archive, file, seen, toolVars>>

\* plate.py:176  zipfile.ZipFile(output, "w", ...): the file is truncated
PaintOpen ==
    /\ x_pc.called /\ x_pc.pc = "paint_open"
    /\ file' = OnDisk(<<>>, FALSE)
    /\ x_pc' = [x_pc EXCEPT !.pc = "paint_write"]
    /\ UNCHANGED <<o_args, o_res, extruder_idx, paint_code, a_args, a_res, a_packed,
                   scene, archive, seen, toolVars>>

\* plate.py:177-179  zout.writestr(...): one member appended to the file
PaintWrite ==
    /\ x_pc.called /\ x_pc.pc = "paint_write"
    /\ Len(file.members) < Len(x_pc.target.members)
    /\ file' = OnDisk(Append(file.members, x_pc.target.members[Len(file.members) + 1]),
                      FALSE)
    /\ UNCHANGED <<o_args, o_res, extruder_idx, paint_code, a_args, a_res, a_packed,
                   scene, archive, x_pc, seen, toolVars>>

\* plate.py:176-179  leaving the `with` block writes the central directory
PaintClose ==
    /\ x_pc.called /\ x_pc.pc = "paint_write"
    /\ Len(file.members) = Len(x_pc.target.members)
    /\ file' = OnDisk(file.members, TRUE)
    /\ x_pc' = [x_pc EXCEPT !.pc = "extruder", !.painted = TRUE,
                            !.paint_before = x_pc.before, !.paint_after = AsArchive(file')]
    /\ UNCHANGED <<o_args, o_res, extruder_idx, paint_code, a_args, a_res, a_packed,
                   scene, archive, seen, toolVars>>

\* plate.py:71-102: _inject_extruder_metadata up to the point where the new
\* archive is complete in the BytesIO buffer
ExtruderBegin ==
    /\ x_pc.called /\ x_pc.pc = "extruder"
    /\ IF ~ExtruderGuard(Geometries(scene))
       THEN /\ x_pc' = [x_pc EXCEPT !.pc = "done"]
            /\ archive' = AsArchive(file)
       ELSE /\ x_pc' = [x_pc EXCEPT !.pc = "extruder_open",
                                    !.before = AsArchive(file),
                                    !.target = _inject_extruder_metadata(AsArchive(file),
                                                                         scene)]
            /\ UNCHANGED archive
    /\ UNCHANGED <<o_args, o_res, extruder_idx, paint_code, a_args, a_res, a_packed,
                   scene, file, seen, toolVars>>

\* plate.py:104  output.write_bytes(...): open(mode="wb") truncates the file
ExtruderOpen ==
    /\ x_pc.called /\ x_pc.pc = "extruder_open"
    /\ file' = OnDisk(<<>>, FALSE)
    /\ x_pc' = [x_pc EXCEPT !.pc = "extruder_write"]
    /\ UNCHANGED <<o_args, o_res, extruder_idx, paint_code, a_args, a_res, a_packed,
                   scene, archive, seen, toolVars>>

\* plate.py:104  f.write(view) and close: the buffer reaches the file
ExtruderWrite ==
    /\ x_pc.called /\ x_pc.pc = "extruder_write"
    /\ file' = OnDisk(x_pc.target.members, TRUE)
    /\ archive' = x_pc.target
    /\ x_pc' = [x_pc EXCEPT !.pc = "done"]
    /\ UNCHANGED <<o_args, o_res, extruder_idx, paint_code, a_args, a_res, a_packed,
                   scene, seen, toolVars>>

\* another process opens the output path and reads what is there
Reader ==
    /\ x_pc.called /\ Len(seen) < MaxReads
    /\ seen' = Append(seen, [pc |-> x_pc.pc, file |-> file])
    /\ UNCHANGED <<o_args, o_res, extruder_idx, paint_code, a_args, a_res, a_packed,
                   scene, archive, file, x_pc, toolVars>>

\* a scene holding the given meshes, in that order
SceneOf(meshes) ==
    build_plate([i \in 1..Len(meshes) |-> Placement(meshes[i], "part", 0, 0)], <<0, 0>>)

\* Model documents the passes can be handed: with or without the XML
\* declaration in front of <model ...> (ids then counted from 1, as the
\* serializer does, or from 2), as many objects as geometries, fewer or more.
MaxObjects == 3
ModelDocs ==
    { [kind |-> "model", xml_decl |-> d, open_xmlns |-> DeclaredPrefixes,
       used |-> UsedPrefixes,
       objects |-> [i \in 1..k |->
                      [id |-> IF d THEN i ELSE i + 1, name |-> [base |-> "part", n |-> i],
                       triangles |-> [j \in 1..2 |-> [v |-> j]]]],
       metadata |-> <<>>] :
      d \in BOOLEAN, k \in 0..MaxObjects }

\* plate.py:55: the state in which export_plate starts its passes
InitInject ==
    /\ o_args = NotCalled /\ o_res = NotCalled
    /\ extruder_idx = -1 /\ paint_code = <<>>
    /\ a_args = NotCalled /\ a_res = NotCalled /\ a_packed = <<>>
    /\ \E meshes \in SeqsUpTo(PlateMeshes, MaxMeshes) : scene = SceneOf(meshes)
    /\ archive = NotCalled
    /\ \E doc \in ModelDocs :
          file = OnDisk(<< Member("[Content_Types].xml", [kind |-> "text", text |-> "types"]),
                           Member("_rels/.rels", [kind |-> "text", text |-> "rels"]),
                           Member(MODEL_PATH, doc) >>, TRUE)
    /\ x_pc = [called |-> TRUE, pc |-> "paint", before |-> NotCalled, target |-> NotCalled,
               painted |-> FALSE, paint_before |-> NotCalled, paint_after |-> NotCalled]
    /\ seen = <<>>
    /\ IdleTools

NextInject ==
    \/ PaintBegin \/ PaintOpen \/ PaintWrite \/ PaintClose
    \/ ExtruderBegin \/ ExtruderOpen \/ ExtruderWrite
    \/ Reader

SpecInject == InitInject /\ [][NextInject]_vars

\* the model document before and after the paint pass rewrote it
PaintedFrom == ZipRead(x_pc.paint_before, MODEL_PATH)
PaintedTo == ZipRead(x_pc.paint_after, MODEL_PATH)

C15_NoPartialArchive ==
    \A r \in 1..Len(seen) :
        seen[r].pc \in {"paint_open", "paint_write", "extruder_open", "extruder_write"} =>
            /\ seen[r].file.closed
            /\ \/ seen[r].file.members = x_pc.before.members
               \/ seen[r].file.members = x_pc.target.members


\* the entries of model_settings.config, none when the member is absent
SettingsEntries ==
    IF SettingsMembers = {} THEN <<>> ELSE ZipRead(archive, SETTINGS_PATH).entries

\* C12: build_plate stores one geometry per placement, in placement order and
\* under the placement's name, also when names repeat; after export the i-th
\* <object> has the triangles of the i-th placement's mesh, a paint_color only
\* where that placement's own list has a color at that triangle, and an
\* extruder entry for its id only with that placement's own filament slot.
C12_ObjectGeometryCorrespondence ==
    /\ scene.called =>
          LET pl == a_res.ret[1] IN
          /\ Len(scene.geometry) = Len(pl)
          /\ \A i \in 1..Len(pl) :
                /\ scene.geometry[i].key.base = pl[i].name
                /\ scene.geometry[i].mesh.faces = pl[i].mesh.faces
                /\ scene.geometry[i].mesh.metadata =
                      ("name" :> pl[i].name) @@ pl[i].mesh.metadata
    /\ archive.called =>
          LET pl == a_res.ret[1] IN
          \A i \in 1..Len(pl) :
             LET md == pl[i].mesh.metadata
                 obj == Doc.objects[i]
                 mine == {k \in 1..Len(SettingsEntries) : SettingsEntries[k].id = obj.id}
             IN /\ Len(obj.triangles) = pl[i].mesh.faces
                /\ \A j \in 1..Len(obj.triangles) :
                      HasPaintAttr(obj.triangles[j]) =>
                          /\ HasPaint(md) /\ j <= Len(md.paint_colors)
                          /\ obj.triangles[j].paint_color = md.paint_colors[j]
                /\ \A k \in mine :
                      HasFilament(md) /\ SettingsEntries[k].extruder = md.filament_id
                /\ HasFilament(md) => mine # {}

\* two placements with the same display name, different paint colors and
\* different slots, exported as two objects
C12_Witness ==
    /\ archive.called /\ Len(a_res.ret[1]) = 2
    /\ a_res.ret[1][1].name = a_res.ret[1][2].name
    /\ HasPaint(a_res.ret[1][1].mesh.metadata)
    /\ HasFilament(a_res.ret[1][1].mesh.metadata)
    /\ HasFilament(a_res.ret[1][2].mesh.metadata)
    /\ a_res.ret[1][1].mesh.metadata.filament_id # a_res.ret[1][2].mesh.metadata.filament_id
    /\ Len(scene.geometry) = 2
    /\ Len(SettingsEntries) = 2
    /\ HasPaintAttr(Doc.objects[1].triangles[2])
    /\ ~HasPaintAttr(Doc.objects[2].triangles[2])


\* C13: when arrange returns a non-empty list, the union XY bounding box of
\* the returned meshes has its centre at (plate_w/2, plate_h/2), and one and
\* the same vector separates every returned mesh's minimum corner from the
\* position the packer gave it (rectangle corner plus half the padding).
C13_Centered ==
    (a_res.called /\ a_res.exc = "" /\ a_res.ret[1] # <<>>) =>
        LET pl == a_res.ret[1]
            n == Len(pl)
            U(k) == SeqMin([i \in 1..n |-> BoundsMin(pl[i].mesh, k)])
                    + SeqMax([i \in 1..n |-> BoundsMax(pl[i].mesh, k)])
            Shift(i) == << BoundsMin(pl[i].mesh, 1)
                              - (a_packed[i].x * MM + Half(a_args.padding)),
                           BoundsMin(pl[i].mesh, 2)
                              - (a_packed[i].y * MM + Half(a_args.padding)) >>
        IN /\ U(1) = a_args.plate_size[1]
           /\ U(2) = a_args.plate_size[2]
           /\ \A i \in 1..n : Shift(i) = Shift(1)
           /\ \A i \in 1..n :
                 BoundsMin(pl[i].mesh, 3) = BoundsMin(a_args.meshes[a_packed[i].rid], 3)

\* two meshes packed at different corners and moved as a group by a non-zero
\* vector on a plate that is not square
C13_Witness ==
    /\ a_res.called /\ a_res.exc = "" /\ Len(a_res.ret[1]) = 2
    /\ a_args.plate_size[1] # a_args.plate_size[2]
    /\ <<a_packed[1].x, a_packed[1].y>> # <<a_packed[2].x, a_packed[2].y>>
    /\ BoundsMin(a_res.ret[1][1].mesh, 1)
          # a_packed[1].x * MM + Half(a_args.padding)
    /\ BoundsMin(a_res.ret[1][1].mesh, 1) - BoundsMin(a_res.ret[1][2].mesh, 1)
          = (a_packed[1].x - a_packed[2].x) * MM


----------------------------------------------------------------------------
(* cli.py: _generate_plate *)

\* most [[parts]] entries in one configuration
MaxParts == 2

\* oriented.apply_scale(part.scale), cli.py:110, for a whole-number factor
apply_scale(m, k) ==
    [m EXCEPT !.verts = [i \in 1..Len(m.verts) |->
                            <<k * m.verts[i][1], k * m.verts[i][2], k * m.verts[i][3]>>]]

\* Part entries as load_config returns them (orient among the valid names,
\* copies and filament >= 1, scale > 0); `loadable` tells whether load_mesh
\* can read the file (it raises for an unsupported suffix or a file without
\* geometry), `mesh` is what it returns when it can.
GenCube == Mesh(<<<<0, 0, 0>>, <<MM, MM, MM>>>>, 12, NoMetadata)
GenBox == Mesh(<<<<0, 0, -MM>>, <<MM, MM, MM>>>>, 12, NoMetadata)
PartConfig(stem, loadable, mesh, copies, ori, rotate, filament, scale) ==
    [stem |-> stem, loadable |-> loadable, mesh |-> mesh, copies |-> copies,
     orient |-> ori, rotate |-> rotate, filament |-> filament, scale |-> scale]
GenParts ==
    { PartConfig("cube", TRUE, GenCube, 1, "flat", NoneVal, 1, 1),
      PartConfig("cube", TRUE, GenCube, 2, "upright", NoneVal, 2, 1),
      PartConfig("box", TRUE, GenBox, 1, "side", NoneVal, 1, 1),
      PartConfig("box", TRUE, GenBox, 1, "flat", <<90, 0, 0>>, 2, 1),
      PartConfig("cube", TRUE, GenCube, 1, "flat", NoneVal, 1, 2),
      PartConfig("scan", FALSE, GenCube, 1, "flat", NoneVal, 1, 1) }

\* cli.py:113-117: the copies of one part and their names
Copies(mesh, n) == [i \in 1..n |-> MeshCopy(mesh)]
CopyNames(stem, n) == [i \in 1..n |-> IF n > 1 THEN <<stem, i>> ELSE <<stem, 0>>]
CopyFilaments(filament, n) == [i \in 1..n |-> filament]

\* cli.py:106-117, one iteration of the loop over cfg.parts; after the last
\* one, cli.py:119-121 hands the lists to arrange
GenPart ==
    /\ gen.called /\ gen.pc = "parts" /\ gen.i <= Len(gen.parts)
    /\ LET part == gen.parts[gen.i] IN
       IF ~part.loadable
       THEN /\ gen' = [gen EXCEPT !.pc = "raised", !.exc = "ValueError"]
            /\ UNCHANGED a_args
       ELSE \E obb \in ObbTransforms :
            LET o == orient_mesh(part.mesh, part.orient, part.rotate, obb) IN
            IF o.exc # ""
            THEN /\ gen' = [gen EXCEPT !.pc = "raised", !.exc = o.exc]
                 /\ UNCHANGED a_args
            ELSE LET oriented == IF part.scale # 1 THEN apply_scale(o.ret[1], part.scale)
                                 ELSE o.ret[1]
                     meshes == gen.meshes \o Copies(oriented, part.copies)
                     names == gen.names \o CopyNames(part.stem, part.copies)
                     last == gen.i = Len(gen.parts)
                 IN /\ gen' = [gen EXCEPT
                                 !.i = @ + 1,
                                 !.meshes = meshes,
                                 !.names = names,
                                 !.filament_ids = @ \o CopyFilaments(part.filament, part.copies),
                                 !.pc = IF last THEN "arrange" ELSE "parts"]
                    /\ a_args' = IF last
                                 THEN [called |-> TRUE, meshes |-> meshes, names |-> names,
                                       plate_size |-> gen.plate_size,
                                       padding |-> gen.padding]
                                 ELSE a_args
    /\ UNCHANGED <<o_args, o_res, extruder_idx, paint_code, a_res, a_packed, scene, archive,
                   exportVars, c_args, c_res, s_args, s_res, p_args, p_res>>

\* a plate written by an earlier run
OldPlate ==
    OnDisk(<<Member(MODEL_PATH,
                    [kind |-> "model", xml_decl |-> TRUE, open_xmlns |-> DeclaredPrefixes,
                     used |-> UsedPrefixes, objects |-> <<>>, metadata |-> <<>>])>>, TRUE)

GenPlateSizes == { <<2 * MM, 2 * MM>>, <<4 * MM, 2 * MM>> }

\* cli.py:100-105: the configuration is loaded, the lists are empty; the
\* output path is free or holds an earlier plate
InitGenerate ==
    /\ o_args = NotCalled /\ o_res = NotCalled
    /\ extruder_idx = -1 /\ paint_code = <<>>
    /\ a_args = NotCalled /\ a_res = NotCalled /\ a_packed = <<>>
    /\ scene = NotCalled /\ archive = NotCalled
    /\ file \in {NotCalled, OldPlate}
    /\ x_pc = NotCalled /\ seen = <<>>
    /\ \E parts \in SeqsUpTo(GenParts, MaxParts), plate_size \in GenPlateSizes :
          /\ parts # <<>>
          /\ gen = [called |-> TRUE, pc |-> "parts", i |-> 1, parts |-> parts,
                    plate_size |-> plate_size, padding |-> 0,
                    meshes |-> <<>>, names |-> <<>>, filament_ids |-> <<>>,
                    exc |-> "", output_before |-> file]
    /\ c_args = NotCalled /\ c_res = NotCalled
    /\ s_args = NotCalled /\ s_res = NotCalled
    /\ p_args = NotCalled /\ p_res = NotCalled

NextGenerate == GenPart \/ Arrange \/ BuildPlate \/ ExportPlate

SpecGenerate == InitGenerate /\ [][NextGenerate]_vars

\* C14: in a _generate_plate run the output path changes, and a scene or an
\* archive exists, only after every part was loaded and oriented and arrange
\* placed every mesh; a run in which a part failed or the packer left a mesh
\* out leaves the output path as it found it.
C14_ExportOnlyAfterArrange ==
    gen.called =>
        LET all_parts == gen.pc = "arrange" /\ gen.i = Len(gen.parts) + 1 /\ gen.exc = ""
            all_fit == a_res.called /\ a_res.exc = ""
                       /\ Len(a_packed) = Len(a_args.meshes)
            touched == file # gen.output_before \/ archive.called \/ scene.called
        IN /\ touched => (all_parts /\ all_fit)
           /\ a_args.called => all_parts
           /\ (gen.exc # "" \/ (a_res.called /\ Len(a_packed) # Len(a_args.meshes)))
                 => (file = gen.output_before /\ ~archive.called)

\* a run whose three meshes do not fit: arrange raised the capacity error with
\* one of them packed, and the earlier plate is still in place
C14_Witness ==
    /\ gen.called /\ gen.pc = "arrange" /\ Len(gen.parts) = 2
    /\ a_res.called /\ a_res.exc = "ValueError"
    /\ Len(a_args.meshes) = 3 /\ Len(a_packed) = 1
    /\ file = OldPlate /\ ~scene.called /\ ~archive.called


----------------------------------------------------------------------------
(* config.py: load_config *)

\* TOML values as tomllib hands them over.  Numbers are kept in tenths, so
\* that 1.9 and 0.5 are values; nan and inf are the floats TOML spells `nan`
\* and `inf`.
Val(t, v, str) == [t |-> t, v |-> v, s |-> str]
IntV(n) == Val("int", 10 * n, "")
FloatV(tenths) == Val("float", tenths, "")
NanV == Val("nan", 0, "")
InfV == Val("inf", 0, "")
StrV(str) == Val("str", 0, str)
Absent == Val("absent", 0, "")
ListV(items) == [t |-> "list", v |-> 0, s |-> "", items |-> items]

Raise(e) == [exc |-> e, val |-> Absent]
Return(x) == [exc |-> "", val |-> x]

\* raw.get(key, default)
Get(x, default) == IF x.t = "absent" THEN default ELSE x

\* Python's `x <= 0` and `x < 1`: every comparison with nan is False
PyLess(x, bound, strict) ==
    IF x.t \in {"int", "float"}
    THEN Return(IF strict THEN x.v < bound ELSE x.v <= bound)
    ELSE IF x.t \in {"nan", "inf"} THEN Return(FALSE)
    ELSE Raise("TypeError")

\* numerals Python's int() and float() read from a string
Numerals == [s : {"3"}, n : {3}]
IsNumeral(str) == \E e \in Numerals : e.s = str
NumeralOf(str) == (CHOOSE e \in Numerals : e.s = str).n

\* int(x): truncation toward zero; nan and inf raise
PyIntOf(x) ==
    IF x.t = "int" THEN Return(x)
    ELSE IF x.t = "float"
         THEN Return(IntV(IF x.v >= 0 THEN x.v \div 10 ELSE -((-x.v) \div 10)))
    ELSE IF x.t = "nan" THEN Raise("ValueError")
    ELSE IF x.t = "inf" THEN Raise("OverflowError")
    ELSE IF x.t = "str"
         THEN IF IsNumeral(x.s) THEN Return(IntV(NumeralOf(x.s))) ELSE Raise("ValueError")
    ELSE Raise("TypeError")

\* float(x)
PyFloatOf(x) ==
    IF x.t \in {"int", "float"} THEN Return(FloatV(x.v))
    ELSE IF x.t \in {"nan", "inf"} THEN Return(x)
    ELSE IF x.t = "str"
         THEN IF IsNumeral(x.s) THEN Return(FloatV(10 * NumeralOf(x.s)))
              ELSE Raise("ValueError")
    ELSE Raise("TypeError")

VALID_ORIENTS == {"flat", "upright", "side"}

\* config.py:59-62
LoadPlate(plate_raw) ==
    LET size == Get(plate_raw.size, ListV(<<FloatV(2560), FloatV(2560)>>))
    IN IF size.t # "list" THEN Raise("TypeError")   \* tuple() of a number
       ELSE IF Len(size.items) # 2 THEN Raise("ValueError")
       ELSE LET c1 == PyLess(size.items[1], 0, FALSE)
                c2 == PyLess(size.items[2], 0, FALSE)
            IN IF c1.exc # "" THEN Raise(c1.exc)
               ELSE IF c1.val THEN Raise("ValueError")
               ELSE IF c2.exc # "" THEN Raise(c2.exc)
               ELSE IF c2.val THEN Raise("ValueError")
               ELSE LET padding == PyFloatOf(Get(plate_raw.padding, FloatV(50)))
                    IN IF padding.exc # "" THEN Raise(padding.exc)
                       ELSE Return([size |-> size.items, padding |-> padding.val])

\* config.py:100-104
LoadRotate(rotate) ==
    IF rotate.t = "absent" THEN Return(rotate)
    ELSE IF rotate.t # "list" THEN Raise("ValueError")
    ELSE IF Len(rotate.items) # 3 THEN Raise("ValueError")
    ELSE LET fl == [i \in 1..3 |-> PyFloatOf(rotate.items[i])]
         IN IF \E i \in 1..3 : fl[i].exc # ""
            THEN Raise(fl[CHOOSE i \in 1..3 :
                              fl[i].exc # "" /\ \A j \in 1..(i - 1) : fl[j].exc = ""].exc)
            ELSE Return(ListV([i \in 1..3 |-> fl[i].val]))

\* config.py:84-115, one [[parts]] entry
LoadPart(p) ==
    IF p.file.t = "absent" THEN Raise("ValueError")
    ELSE LET ori == Get(p.orient, StrV("flat")) IN
    IF ~(ori.t = "str" /\ ori.s \in VALID_ORIENTS) THEN Raise("ValueError")
    ELSE IF ~p.file_exists THEN Raise("FileNotFoundError")
    ELSE LET copies == PyIntOf(Get(p.copies, IntV(1))) IN
    IF copies.exc # "" THEN Raise(copies.exc)
    ELSE IF PyLess(copies.val, 10, TRUE).val THEN Raise("ValueError")
    ELSE LET filament == PyIntOf(Get(p.filament, IntV(1))) IN
    IF filament.exc # "" THEN Raise(filament.exc)
    ELSE IF PyLess(filament.val, 10, TRUE).val THEN Raise("ValueError")
    ELSE LET rotate == LoadRotate(p.rotate) IN
    IF rotate.exc # "" THEN Raise(rotate.exc)
    ELSE LET scale == PyFloatOf(Get(p.scale, FloatV(10))) IN
    IF scale.exc # "" THEN Raise(scale.exc)
    ELSE IF PyLess(scale.val, 0, FALSE).val THEN Raise("ValueError")
    ELSE Return([file |-> p.file, copies |-> copies.val, orient |-> ori.s,
                 rotate |-> rotate.val, filament |-> filament.val, scale |-> scale.val])

\* config.py:46-117.  The outcome is the exception raised ("" for none) and
\* the configuration returned (<<>> for none).
load_config(exists, raw) ==
    LET Fail(e) == [called |-> TRUE, exc |-> e, ret |-> <<>>]
        plate == LoadPlate(raw.plate)
        engine == Get(raw.engine, StrV("bambu"))
        loaded == [i \in 1..Len(raw.parts) |-> LoadPart(raw.parts[i])]
        bad == {i \in 1..Len(raw.parts) : loaded[i].exc # ""}
    IN IF ~exists THEN Fail("FileNotFoundError")
       ELSE IF plate.exc # "" THEN Fail(plate.exc)
       ELSE IF ~(engine.t = "str" /\ engine.s \in {"bambu", "orca"}) THEN Fail("ValueError")
       ELSE IF raw.parts = <<>> THEN Fail("ValueError")
       ELSE IF bad # {}
            THEN Fail(loaded[CHOOSE i \in bad : \A j \in bad : i <= j].exc)
       ELSE [called |-> TRUE, exc |-> "",
             ret |-> <<[plate |-> plate.val, engine |-> engine.s,
                        parts |-> [i \in 1..Len(raw.parts) |-> loaded[i].val]]>>]


\* a [[parts]] entry with only `file` set, and entries that differ from it in
\* one key
BasePart ==
    [file |-> StrV("cube.stl"), file_exists |-> TRUE, orient |-> Absent,
     copies |-> Absent, filament |-> Absent, rotate |-> Absent, scale |-> Absent]
RawParts ==
    {BasePart, [BasePart EXCEPT !.file = Absent], [BasePart EXCEPT !.file_exists = FALSE]}
    \cup {[BasePart EXCEPT !.orient = v] : v \in {StrV("side"), StrV("diagonal")}}
    \cup {[BasePart EXCEPT !.copies = v] :
            v \in {IntV(2), IntV(0), FloatV(19), FloatV(5), NanV, StrV("3")}}
    \cup {[BasePart EXCEPT !.filament = v] : v \in {IntV(2), IntV(0), IntV(-1)}}
    \cup {[BasePart EXCEPT !.rotate = v] :
            v \in {ListV(<<IntV(0), IntV(90), IntV(0)>>), ListV(<<IntV(90), IntV(0)>>),
                   ListV(<<StrV("a"), IntV(0), IntV(0)>>), StrV("x")}}
    \cup {[BasePart EXCEPT !.scale = v] :
            v \in {FloatV(25), IntV(0), IntV(-1), NanV, InfV, StrV("3")}}

RawSizes ==
    {Absent, IntV(200), ListV(<<IntV(200)>>), ListV(<<IntV(200), IntV(200)>>),
     ListV(<<IntV(200), IntV(200), IntV(200)>>), ListV(<<IntV(0), IntV(200)>>),
     ListV(<<IntV(200), FloatV(-5)>>), ListV(<<NanV, IntV(200)>>),
     ListV(<<IntV(200), InfV>>), ListV(<<StrV("a"), StrV("b")>>)}
RawPaddings == {Absent, FloatV(-80), StrV("wide")}
RawEngines == {Absent, StrV("orca"), StrV("cura")}

\* the call  load_config(path)  on the document drawn at the start
LoadConfig ==
    /\ c_args.called /\ ~c_res.called
    /\ c_res' = load_config(c_args.exists, c_args.raw)
    /\ UNCHANGED <<o_args, o_res, extruder_idx, paint_code, a_args, a_res, a_packed,
                   scene, archive, exportVars, gen, c_args, s_args, s_res, p_args, p_res>>

\* documents that vary the [plate] and [slicer] tables over a fixed parts
\* list, and documents that vary the parts list under a fixed plate
InitConfig ==
    /\ o_args = NotCalled /\ o_res = NotCalled
    /\ extruder_idx = -1 /\ paint_code = <<>>
    /\ a_args = NotCalled /\ a_res = NotCalled /\ a_packed = <<>>
    /\ scene = NotCalled /\ archive = NotCalled
    /\ IdleExport
    /\ gen = NotCalled
    /\ \/ \E exists \in BOOLEAN, size \in RawSizes, padding \in RawPaddings,
             engine \in RawEngines,
             parts \in {<<>>, <<BasePart>>, <<[BasePart EXCEPT !.scale = NanV]>>} :
             c_args = [called |-> TRUE, exists |-> exists,
                       raw |-> [plate |-> [size |-> size, padding |-> padding],
                                engine |-> engine, parts |-> parts]]
       \/ \E size \in {Absent, ListV(<<NanV, IntV(200)>>)}, engine \in {Absent, StrV("orca")},
             parts \in SeqsUpTo(RawParts, MaxParts) :
             c_args = [called |-> TRUE, exists |-> TRUE,
                       raw |-> [plate |-> [size |-> size, padding |-> Absent],
                                engine |-> engine, parts |-> parts]]
    /\ c_res = NotCalled
    /\ s_args = NotCalled /\ s_res = NotCalled
    /\ p_args = NotCalled /\ p_res = NotCalled

NextConfig == LoadConfig

SpecConfig == InitConfig /\ [][NextConfig]_vars

\* a positive number: a finite value above zero, or +inf
IsPositive(x) == (x.t \in {"int", "float"} /\ x.v > 0) \/ x.t = "inf"
IsNumber(x) == x.t \in {"int", "float", "inf", "nan"}
AtLeastOne(x) == x.t = "int" /\ x.v >= 10

\* the properties of a returned configuration
ValidConfig(cfg) ==
    /\ Len(cfg.plate.size) = 2
    /\ \A i \in 1..Len(cfg.plate.size) : IsPositive(cfg.plate.size[i])
    /\ cfg.engine \in {"bambu", "orca"}
    /\ Len(cfg.parts) >= 1
    /\ \A i \in 1..Len(cfg.parts) :
          LET part == cfg.parts[i] IN
          /\ AtLeastOne(part.copies)
          /\ AtLeastOne(part.filament)
          /\ IsPositive(part.scale)
          /\ part.orient \in {"flat", "upright", "side"}
          /\ \/ part.rotate.t = "absent"
             \/ /\ part.rotate.t = "list"
                /\ Len(part.rotate.items) = 3
                /\ \A k \in 1..3 : IsNumber(part.rotate.items[k])

\* a document that states a number outside the range a property allows (or
\* states none of the required things)
NotAbove(x, bound, strict) ==
    \/ x.t = "nan"
    \/ x.t \in {"int", "float"} /\ (IF strict THEN x.v < bound ELSE x.v <= bound)
RawViolates(raw) ==
    \/ raw.plate.size.t = "list"
          /\ \/ Len(raw.plate.size.items) # 2
             \/ \E i \in 1..Len(raw.plate.size.items) :
                   NotAbove(raw.plate.size.items[i], 0, FALSE)
    \/ raw.engine.t = "str" /\ raw.engine.s \notin {"bambu", "orca"}
    \/ raw.parts = <<>>
    \/ \E i \in 1..Len(raw.parts) :
          LET p == raw.parts[i] IN
          \/ NotAbove(p.copies, 10, TRUE)
          \/ NotAbove(p.filament, 10, TRUE)
          \/ NotAbove(p.scale, 0, FALSE)
          \/ p.orient.t = "str" /\ p.orient.s \notin {"flat", "upright", "side"}
          \/ p.rotate.t = "str"
          \/ p.rotate.t = "list" /\ Len(p.rotate.items) # 3

HasNan(raw) ==
    \/ raw.plate.size.t = "list"
          /\ \E i \in 1..Len(raw.plate.size.items) : raw.plate.size.items[i].t = "nan"
    \/ \E i \in 1..Len(raw.parts) : raw.parts[i].scale.t = "nan"

\* C16 (as stated): a configuration load_config returns has a plate size of
\* two positive numbers, engine bambu or orca, at least one part, and for each
\* part copies >= 1, filament >= 1, scale > 0, a valid orient and a rotate
\* that is absent or three numbers; a document violating one of these makes
\* load_config raise.
C16_ValidatedConfig ==
    c_res.called =>
        /\ c_res.exc = "" => ValidConfig(c_res.ret[1])
        /\ RawViolates(c_args.raw) => c_res.exc # ""

\* the same for documents without a nan in plate.size or in a part's scale
C16_ValidatedConfigWithoutNan ==
    (c_res.called /\ ~HasNan(c_args.raw)) =>
        /\ c_res.exc = "" => ValidConfig(c_res.ret[1])
        /\ RawViolates(c_args.raw) => c_res.exc # ""


----------------------------------------------------------------------------
(* slicer.py: slice_plate *)

\* `if version:` and `if required_version`: a non-empty string
VersionTruthy(v) == v.t = "str" /\ v.s # ""

DEFAULT_DOCKER_IMAGE == <<"fabprint", "latest", "">>

\* an image name that ignores the version
_docker_image_latest(version) == DEFAULT_DOCKER_IMAGE

\* slicer.py:45-49
_docker_image(version) ==
    IF VersionTruthy(version) THEN <<"fabprint", "orca", version.s>>
    ELSE DEFAULT_DOCKER_IMAGE

\* slicer.py:52-78: the executable is at its default path or on PATH, or not
find_slicer(engine, env) ==
    IF engine \notin {"bambu", "orca"} THEN "ValueError"
    ELSE IF env.local_found THEN "" ELSE "FileNotFoundError"

\* slicer.py:141-151: `docker image inspect` succeeds
_has_docker(image, env) == image \in env.images

\* a version check that accepts any detected version
_check_slicer_version_any(actual, required) ==
    IF actual.t = "absent" THEN "RuntimeError" ELSE ""

\* slicer.py:125-138
_check_slicer_version(actual, required) ==
    IF actual.t = "absent" THEN "RuntimeError"
    ELSE IF actual # required THEN "RuntimeError"
    ELSE ""

\* slicer.py:459-612.  env says what the machine holds: whether the local
\* executable is found, which images exist, the version the local slicer
\* reports, whether the input file exists, whether the profiles resolve and
\* the slicer's exit code.  The outcome is the exception raised and what the
\* call did on the way: looked the local slicer up, ran it with --help,
\* resolved and wrote profiles, started the slicer (and how, with which image).
slice_plate(args, env) ==
    LET from_config == VersionTruthy(args.required_version)
                       /\ ~VersionTruthy(args.docker_version)
        docker_version == IF from_config THEN args.required_version
                          ELSE args.docker_version
        docker == IF from_config THEN TRUE ELSE args.docker
        wanted == docker \/ docker_version.t # "absent"
        image == _docker_image(docker_version)
        found == IF wanted THEN "" ELSE find_slicer(args.engine, env)
        fallback == ~wanted /\ found = "FileNotFoundError" /\ _has_docker(image, env)
        use_docker == wanted \/ fallback
        detected == IF use_docker THEN docker_version ELSE env.local_version
        Out(exc, help, resolved, started) ==
            [called |-> TRUE, exc |-> exc, use_docker |-> use_docker, image |-> image,
             looked_up |-> ~wanted, help |-> help, resolved |-> resolved,
             started |-> started]
    IN IF found = "ValueError" THEN Out("ValueError", FALSE, FALSE, "none")
       ELSE IF found = "FileNotFoundError" /\ ~fallback
            THEN Out("FileNotFoundError", FALSE, FALSE, "none")
       ELSE IF use_docker /\ ~_has_docker(image, env)
            THEN Out("FileNotFoundError", FALSE, FALSE, "none")
       ELSE IF VersionTruthy(args.required_version)
               /\ _check_slicer_version(detected, args.required_version) # ""
            THEN Out(_check_slicer_version(detected, args.required_version),
                     ~use_docker, FALSE, "none")
       ELSE IF ~env.input_exists THEN Out("FileNotFoundError", ~use_docker, FALSE, "none")
       ELSE IF ~env.profiles_resolve
            THEN Out("FileNotFoundError", ~use_docker, TRUE, "none")
       ELSE Out(IF env.returncode # 0 THEN "RuntimeError" ELSE "",
                ~use_docker, TRUE, IF use_docker THEN "docker" ELSE "local")

Versions == {Absent, StrV(""), StrV("2.3.1"), StrV("2.2.0")}
Images == {DEFAULT_DOCKER_IMAGE, <<"fabprint", "orca", "2.3.1">>,
           <<"fabprint", "orca", "2.2.0">>}

\* the call  slice_plate(...)  on the arguments and machine drawn at the start
SlicePlate ==
    /\ s_args.called /\ ~s_res.called
    /\ s_res' = slice_plate(s_args.args, s_args.env)
    /\ UNCHANGED <<o_args, o_res, extruder_idx, paint_code, a_args, a_res, a_packed,
                   scene, archive, exportVars, gen, c_args, c_res, s_args, p_args, p_res>>

InitSlice ==
    /\ o_args = NotCalled /\ o_res = NotCalled
    /\ extruder_idx = -1 /\ paint_code = <<>>
    /\ a_args = NotCalled /\ a_res = NotCalled /\ a_packed = <<>>
    /\ scene = NotCalled /\ archive = NotCalled
    /\ IdleExport
    /\ gen = NotCalled
    /\ c_args = NotCalled /\ c_res = NotCalled
    /\ s_args \in [called : {TRUE},
                   args : [engine : {"orca", "bambu", "cura"}, docker : BOOLEAN,
                           docker_version : Versions, required_version : Versions],
                   env : [local_found : BOOLEAN, images : SUBSET Images,
                          local_version : {Absent, StrV("2.3.1")},
                          input_exists : BOOLEAN, profiles_resolve : BOOLEAN,
                          returncode : {0, 1}]]
    /\ s_res = NotCalled
    /\ p_args = NotCalled /\ p_res = NotCalled

NextSlice == SlicePlate

SpecSlice == InitSlice /\ [][NextSlice]_vars

\* Docker, or a version, is requested by the caller: docker=True, a
\* docker_version other than None, or a non-empty required_version
DockerRequested ==
    \/ s_args.args.docker
    \/ s_args.args.docker_version.t # "absent"
    \/ VersionTruthy(s_args.args.required_version)
\* the local executable is not found while the default image exists
DockerFallback ==
    /\ ~DockerRequested
    /\ s_args.args.engine \in {"bambu", "orca"}
    /\ ~s_args.env.local_found
    /\ DEFAULT_DOCKER_IMAGE \in s_args.env.images
\* the version that applies: docker_version, else required_version
AppliedVersion ==
    IF VersionTruthy(s_args.args.docker_version) THEN s_args.args.docker_version
    ELSE IF VersionTruthy(s_args.args.required_version) THEN s_args.args.required_version
    ELSE Absent

\* C17: a slice_plate call that starts the slicer starts it in Docker exactly
\* when Docker or a version was requested or the local executable is missing
\* while the default image exists, and otherwise starts the local executable;
\* a successful call started one of the two; with Docker or a version
\* requested the local slicer is never looked up; the image is
\* fabprint:orca-<version> when a version applies and fabprint:latest if not.
C17_DockerSelection ==
    s_res.called =>
        /\ s_res.started = "docker" => (DockerRequested \/ DockerFallback)
        /\ s_res.started = "local" => ~(DockerRequested \/ DockerFallback)
        /\ s_res.exc = "" => s_res.started \in {"docker", "local"}
        /\ DockerRequested => (~s_res.looked_up /\ ~s_res.help)
        /\ s_res.started = "docker" =>
              s_res.image = IF AppliedVersion.t = "absent"
                            THEN <<"fabprint", "latest", "">>
                            ELSE <<"fabprint", "orca", AppliedVersion.s>>

\* a run in the image of the version the configuration requires, a fallback
\* run in the default image, and a local run
C17_Witness ==
    /\ s_res.called /\ s_res.exc = "" /\ s_res.started = "docker"
    /\ ~s_args.args.docker /\ s_args.args.docker_version = Absent
    /\ s_args.args.required_version = StrV("2.3.1")
    /\ s_res.image = <<"fabprint", "orca", "2.3.1">>
    /\ s_args.env.local_found /\ ~s_res.looked_up

\* C18: when Docker is requested or fallen back to and its image does not
\* exist the call raises FileNotFoundError, and when required_version is set
\* and the version in use (the docker_version tag) differs from it the call
\* raises RuntimeError (FileNotFoundError if the image is missing too); in
\* both cases no slicer process was started, not even for --help, and no
\* profile was resolved or written.
C18_NoStartOnMissingImageOrVersion ==
    s_res.called =>
        LET req == s_args.args.required_version
            image_missing == s_res.use_docker /\ s_res.image \notin s_args.env.images
            mismatch == VersionTruthy(req) /\ AppliedVersion # req
            Quiet == s_res.started = "none" /\ ~s_res.resolved /\ ~s_res.help
        IN /\ image_missing => (s_res.exc = "FileNotFoundError" /\ Quiet)
           /\ mismatch => (s_res.exc \in {"FileNotFoundError", "RuntimeError"} /\ Quiet)
           /\ (mismatch /\ ~image_missing) => s_res.exc = "RuntimeError"

\* the image of the requested docker_version exists, the configuration
\* requires another version: RuntimeError, nothing started
C18_Witness ==
    /\ s_res.called /\ s_res.exc = "RuntimeError"
    /\ s_args.args.docker_version = StrV("2.2.0")
    /\ s_args.args.required_version = StrV("2.3.1")
    /\ <<"fabprint", "orca", "2.2.0">> \in s_args.env.images
    /\ s_args.env.input_exists /\ s_args.env.profiles_resolve
    /\ s_res.started = "none" /\ ~s_res.resolved


----------------------------------------------------------------------------
(* profiles.py: resolve_profile_data *)

\* Profile files: <project>/profiles/<category>/ ("pinned") and the slicer's
\* system directory ("system").  A profile is a JSON object; here a function
\* from its keys to its values.
ProfileSlots == { <<"pinned", "child">>, <<"pinned", "root">>,
                  <<"system", "root">>, <<"system", "base">> }
EmptyDict == [k \in {} |-> ""]

\* the file at a slot: `inherits` as given ("-" for no such key), and the
\* keys wall_loops and infill, whose values name the file they stand in
ProfileAt(slot, choice) ==
    (IF choice[2] # "-" THEN "inherits" :> <<choice[2]>> ELSE EmptyDict)
    @@ (IF choice[3] THEN "wall_loops" :> slot ELSE EmptyDict)
    @@ (IF choice[4] THEN "infill" :> slot ELSE EmptyDict)

ProfileChoices ==
    {<<FALSE, "-", FALSE, FALSE>>}
    \cup ({TRUE} \X {"-", "", "root", "base", "child"} \X BOOLEAN \X BOOLEAN)

FilesOf(choices) ==
    [slot \in {sl \in ProfileSlots : choices[sl][1]} |-> ProfileAt(slot, choices[slot])]

\* profiles.py:69-108 for a plain name: the pinned file, else the system file
resolve_profile(name, fs) ==
    IF <<"pinned", name>> \in DOMAIN fs THEN <<"pinned", name>>
    ELSE IF <<"system", name>> \in DOMAIN fs THEN <<"system", name>>
    ELSE <<>>

\* profiles.py:125-146: the files read, leaf first
ProfileChain(path, fs) ==
    LET RECURSIVE Walk(_, _)
        Walk(current, chain) ==
            IF \E i \in 1..Len(chain) : chain[i] = current THEN chain   \* seen
            ELSE LET data == fs[current]
                     sofar == Append(chain, current)
                 IN IF "inherits" \notin DOMAIN data THEN sofar
                    ELSE LET parent_name == data["inherits"][1]
                             sibling == <<current[1], parent_name>>
                             system == <<"system", parent_name>>
                         IN IF parent_name = "" THEN sofar
                            ELSE IF sibling \in DOMAIN fs THEN Walk(sibling, sofar)
                            ELSE IF system \in DOMAIN fs THEN Walk(system, sofar)
                            ELSE sofar
    IN Walk(path, <<>>)

\* a merge in which the value read first stays
MergeLeafFirstLoses(chain, fs) ==
    LET RECURSIVE Upd(_, _)
        Upd(merged, i) ==
            IF i > Len(chain) THEN merged ELSE Upd(fs[chain[i]] @@ merged, i + 1)
        merged == Upd(EmptyDict, 1)
    IN [k \in DOMAIN merged \ {"inherits"} |-> merged[k]]

\* profiles.py:148-152: merged.update(data) from the root to the leaf, then
\* merged.pop("inherits", None)
MergeChain(chain, fs) ==
    LET RECURSIVE Upd(_, _)
        Upd(merged, i) ==
            IF i < 1 THEN merged ELSE Upd(fs[chain[i]] @@ merged, i - 1)
        merged == Upd(EmptyDict, Len(chain))
    IN [k \in DOMAIN merged \ {"inherits"} |-> merged[k]]

\* profiles.py:111-153
resolve_profile_data(name, fs) ==
    LET path == resolve_profile(name, fs)
    IN IF path = <<>>
       THEN [called |-> TRUE, exc |-> "FileNotFoundError", ret |-> <<>>]
       ELSE [called |-> TRUE, exc |-> "", ret |-> <<MergeChain(ProfileChain(path, fs), fs)>>]

\* the call  resolve_profile_data(name, engine, category, project_dir)
ResolveProfileData ==
    /\ p_args.called /\ ~p_res.called
    /\ p_res' = resolve_profile_data(p_args.name, p_args.fs)
    /\ UNCHANGED <<o_args, o_res, extruder_idx, paint_code, a_args, a_res, a_packed,
                   scene, archive, exportVars, gen, c_args, c_res, s_args, s_res, p_args>>

InitProfile ==
    /\ o_args = NotCalled /\ o_res = NotCalled
    /\ extruder_idx = -1 /\ paint_code = <<>>
    /\ a_args = NotCalled /\ a_res = NotCalled /\ a_packed = <<>>
    /\ scene = NotCalled /\ archive = NotCalled
    /\ IdleExport
    /\ gen = NotCalled
    /\ c_args = NotCalled /\ c_res = NotCalled
    /\ s_args = NotCalled /\ s_res = NotCalled
    /\ \E choices \in [ProfileSlots -> ProfileChoices] :
          p_args = [called |-> TRUE, name |-> "child", fs |-> FilesOf(choices)]
    /\ p_res = NotCalled

NextProfile == ResolveProfileData

SpecProfile == InitProfile /\ [][NextProfile]_vars

\* the inheritance chain of the requested profile, as the files on disk
\* define it
RequestedChain == ProfileChain(resolve_profile(p_args.name, p_args.fs), p_args.fs)

\* C19: the dict resolve_profile_data returns has exactly the keys defined
\* somewhere in the chain other than 'inherits', each with the value from the
\* first profile, counting from the leaf, that defines it.
C19_FlattenedInheritance ==
    (p_res.called /\ p_res.exc = "") =>
        LET merged == p_res.ret[1]
            chain == RequestedChain
            Defines(i, k) == k \in DOMAIN p_args.fs[chain[i]]
        IN /\ "inherits" \notin DOMAIN merged
           /\ DOMAIN merged =
                 UNION {DOMAIN p_args.fs[chain[i]] : i \in 1..Len(chain)} \ {"inherits"}
           /\ \A k \in DOMAIN merged :
                 \E i \in 1..Len(chain) :
                    /\ Defines(i, k)
                    /\ \A j \in 1..(i - 1) : ~Defines(j, k)
                    /\ merged[k] = p_args.fs[chain[i]][k]

\* a chain of three files that leaves the pinned directory; leaf and root
\* both define wall_loops, only the base defines infill
C19_Witness ==
    /\ p_res.called /\ p_res.exc = ""
    /\ RequestedChain = << <<"pinned", "child">>, <<"system", "root">>, <<"system", "base">> >>
    /\ "wall_loops" \in DOMAIN p_args.fs[<<"system", "root">>]
    /\ "infill" \notin DOMAIN p_args.fs[<<"pinned", "child">>]
    /\ "infill" \notin DOMAIN p_args.fs[<<"system", "root">>]
    /\ p_res.ret[1] = [wall_loops |-> <<"pinned", "child">>, infill |-> <<"system", "base">>]


----------------------------------------------------------------------------
(* arrange.py: the rectangles and the bin handed to the packer *)

\* the smallest whole number of mm not below v, and the largest not above it
CeilMM(v) == -((-v) \div MM)
FloorMM(v) == v \div MM

\* C20: every rectangle arrange submits to the packer is the ceiling of the
\* mesh's padded X and Y extents, and the bin is the plate size rounded down.
C20_RectIsCeiling ==
    (a_res.called /\ ~LengthsDiffer(a_args.meshes, a_args.names)) =>
        /\ \A i \in 1..Len(a_args.meshes) :
              LET rect == RectOf(a_args.meshes[i], a_args.padding)
              IN /\ rect.w = CeilMM(Extent(a_args.meshes[i], 1) + a_args.padding)
                 /\ rect.h = CeilMM(Extent(a_args.meshes[i], 2) + a_args.padding)
        /\ \A p \in 1..Len(a_packed) :
              LET mesh == a_args.meshes[a_packed[p].rid]
              IN /\ a_packed[p].w = CeilMM(Extent(mesh, 1) + a_args.padding)
                 /\ a_packed[p].h = CeilMM(Extent(mesh, 2) + a_args.padding)
        /\ PyInt(a_args.plate_size[1]) = FloorMM(a_args.plate_size[1])
        /\ PyInt(a_args.plate_size[2]) = FloorMM(a_args.plate_size[2])

----------------------------------------------------------------------------
(* arrange.py: where a placement's mesh lies relative to its stored (x, y) *)

\* C21: for every placement arrange returns, the minimum XY corner of the
\* mesh's bounding box is (placement.x + padding/2, placement.y + padding/2),
\* and every vertex keeps the Z coordinate it has in the input mesh.
C21_MinCornerAtStoredPosition ==
    (a_res.called /\ a_res.exc = "") =>
        \A p \in 1..Len(a_res.ret[1]) :
            LET pl == a_res.ret[1][p]
                input == a_args.meshes[a_packed[p].rid]
            IN /\ BoundsMin(pl.mesh, 1) = pl.x + Half(a_args.padding)
               /\ BoundsMin(pl.mesh, 2) = pl.y + Half(a_args.padding)
               /\ Len(pl.mesh.verts) = Len(input.verts)
               /\ \A v \in 1..Len(input.verts) : pl.mesh.verts[v][3] = input.verts[v][3]

\* a mesh whose bounding-box minimum is away from its origin, placed with a
\* non-zero padding and then moved by the centering pass
C21_Witness ==
    /\ a_res.called /\ a_res.exc = "" /\ Len(a_res.ret[1]) >= 1
    /\ a_args.padding > 0
    /\ BoundsMin(a_args.meshes[a_packed[1].rid], 1) # 0
    /\ BoundsMin(a_args.meshes[a_packed[1].rid], 2) # 0
    /\ a_res.ret[1][1].x # a_packed[1].x * MM
    /\ BoundsMin(a_res.ret[1][1].mesh, 1) = a_res.ret[1][1].x + Half(a_args.padding)

----------------------------------------------------------------------------
(* orient.py: the strategies *)

NoRotation == ~RotateGiven(o_args.rotate)
AlreadyFlat(m) == Extent(m, 3) <= Extent(m, 1) /\ Extent(m, 3) <= Extent(m, 2)
\* b is a with every vertex moved by the same distance along Z
SameUpToZShift(a, b) ==
    /\ Len(a.verts) = Len(b.verts)
    /\ \A i \in 1..Len(a.verts) :
          /\ b.verts[i][1] = a.verts[i][1]
          /\ b.verts[i][2] = a.verts[i][2]
          /\ b.verts[i][3] - a.verts[i][3] = b.verts[1][3] - a.verts[1][3]

\* C22: strategy "flat" without an explicit rotation returns a mesh whose Z
\* extent is at most its X extent and at most its Y extent, whatever the
\* bounding-box transform did; an input that is already flat is not rotated.
C22_FlatMinimizesZ ==
    (o_res.called /\ o_res.exc = "" /\ o_args.strategy = "flat" /\ NoRotation) =>
        LET r == o_res.ret[1]
        IN /\ Extent(r, 3) <= Extent(r, 1)
           /\ Extent(r, 3) <= Extent(r, 2)
           /\ AlreadyFlat(o_args.mesh) =>
                 /\ SameUpToZShift(o_args.mesh, r)
                 /\ \A k \in 1..3 : Extent(r, k) = Extent(o_args.mesh, k)

\* a mesh that is not flat and that the bounding-box transform leaves with Z
\* larger than another extent: the second rotation brings the smallest onto Z
C22_Witness ==
    /\ o_res.called /\ o_res.exc = "" /\ o_args.strategy = "flat" /\ NoRotation
    /\ ~AlreadyFlat(o_args.mesh)
    /\ ~AlreadyFlat(apply_rigid(o_args.mesh, o_args.obb))
    /\ AlreadyFlat(o_res.ret[1])
    /\ Extent(o_res.ret[1], 3) < Extent(o_args.mesh, 3)

\* C23: without an explicit rotation, "upright" returns the input moved along
\* Z only, and "side" returns the input turned +90 degrees about X, (x, y, z)
\* to (x, -z, y), then moved along Z only: X extent unchanged, Y and Z
\* extents exchanged.
C23_UprightAndSide ==
    (o_res.called /\ o_res.exc = "" /\ NoRotation) =>
        LET r == o_res.ret[1]
            m == o_args.mesh
        IN /\ o_args.strategy = "upright" =>
                 /\ SameUpToZShift(m, r)
                 /\ \A k \in 1..3 : Extent(r, k) = Extent(m, k)
           /\ o_args.strategy = "side" =>
                 /\ Len(r.verts) = Len(m.verts)
                 /\ \A i \in 1..Len(m.verts) :
                       /\ r.verts[i][1] = m.verts[i][1]
                       /\ r.verts[i][2] = -m.verts[i][3]
                       /\ r.verts[i][3] - m.verts[i][2] = r.verts[1][3] - m.verts[1][2]
                 /\ Extent(r, 1) = Extent(m, 1)
                 /\ Extent(r, 2) = Extent(m, 3)
                 /\ Extent(r, 3) = Extent(m, 2)

\* "side" on a mesh whose Y and Z extents differ and which has to be moved
\* onto the bed after the turn
C23_Witness ==
    /\ o_res.called /\ o_res.exc = "" /\ NoRotation /\ o_args.strategy = "side"
    /\ Extent(o_args.mesh, 2) # Extent(o_args.mesh, 3)
    /\ BoundsMin(o_args.mesh, 2) > Tol
    /\ BoundsMin(o_args.mesh, 3) > Tol
    /\ Extent(o_res.ret[1], 3) = Extent(o_args.mesh, 2)
    /\ BoundsMin(o_res.ret[1], 3) = 0

----------------------------------------------------------------------------
(* plate.py: build_plate puts the plate centre at the origin *)

\* C24: every geometry of the scene is its placement's mesh moved by
\* (-plate_w/2, -plate_h/2, 0), vertex by vertex, and the union XY bounding
\* box of the scene built from arrange's placements is centred on the origin.
C24_PlateCentreIsOrigin ==
    (scene.called /\ a_res.called /\ a_res.exc = "") =>
        LET pl == a_res.ret[1]
            g == Geometries(scene)
            n == Len(pl)
            U(k) == SeqMin([i \in 1..n |-> BoundsMin(g[i], k)])
                    + SeqMax([i \in 1..n |-> BoundsMax(g[i], k)])
        IN /\ Len(g) = n
           /\ \A i \in 1..n :
                 /\ Len(g[i].verts) = Len(pl[i].mesh.verts)
                 /\ \A v \in 1..Len(g[i].verts) :
                       /\ 2 * (pl[i].mesh.verts[v][1] - g[i].verts[v][1]) = a_args.plate_size[1]
                       /\ 2 * (pl[i].mesh.verts[v][2] - g[i].verts[v][2]) = a_args.plate_size[2]
                       /\ g[i].verts[v][3] = pl[i].mesh.verts[v][3]
           /\ n > 0 => U(1) = 0 /\ U(2) = 0

\* two parts on a plate that is not square: both are moved by the same
\* non-zero vector and lie on either side of the origin
C24_Witness ==
    /\ scene.called /\ a_res.called /\ a_res.exc = "" /\ Len(a_res.ret[1]) = 2
    /\ a_args.plate_size[1] # a_args.plate_size[2]
    /\ BoundsMin(Geometries(scene)[1], 1) # BoundsMin(Geometries(scene)[2], 1)
    /\ \E i \in 1..2 : BoundsMin(Geometries(scene)[i], 1) < 0
    /\ \E i \in 1..2 : BoundsMax(Geometries(scene)[i], 1) > 0
    /\ BoundsMin(Geometries(scene)[1], 1) - BoundsMin(Geometries(scene)[2], 1)
          = BoundsMin(a_res.ret[1][1].mesh, 1) - BoundsMin(a_res.ret[1][2].mesh, 1)

----------------------------------------------------------------------------
(* plate.py: object and geometry counts that differ *)

\* the model document export_plate's passes started from
InitialDoc == IF x_pc.painted THEN PaintedFrom ELSE ZipRead(archive, MODEL_PATH)

\* C25: whatever the numbers of <object> elements and of geometries, both
\* passes run to completion; objects beyond the geometries are left as they
\* were, model_settings.config names only objects at indices below both
\* counts, and a triangle beyond the end of its geometry's paint list is left
\* as it was.
C25_CountMismatchTolerated ==
    /\ (x_pc.called /\ x_pc.pc # "done") =>
          ENABLED (PaintBegin \/ PaintOpen \/ PaintWrite \/ PaintClose
                   \/ ExtruderBegin \/ ExtruderOpen \/ ExtruderWrite)
    /\ (x_pc.called /\ x_pc.pc = "done") =>
          LET before == InitialDoc.objects
              after == Doc.objects
              g == Geometries(scene)
              Both == {i \in 1..Len(before) : i <= Len(g)}
              Colors(i) == IF "paint_colors" \in DOMAIN g[i].metadata
                           THEN g[i].metadata.paint_colors ELSE <<>>
          IN /\ Len(after) = Len(before)
             /\ \A i \in 1..Len(before) :
                   /\ after[i].id = before[i].id
                   /\ Len(after[i].triangles) = Len(before[i].triangles)
                   /\ i \notin Both => after[i] = before[i]
                   /\ i \in Both =>
                         \A j \in 1..Len(before[i].triangles) :
                            j > Len(Colors(i)) => after[i].triangles[j] = before[i].triangles[j]
             /\ Len(SettingsEntries) <= Cardinality(Both)
             /\ \A e \in 1..Len(SettingsEntries) :
                   \E i \in Both : /\ SettingsEntries[e].id = before[i].id
                                   /\ HasFilament(g[i].metadata)
                                   /\ SettingsEntries[e].extruder = g[i].metadata.filament_id

\* one object for two geometries: the first geometry paints the object's
\* first triangle and has no color for the second; the second geometry's
\* filament slot finds no object, and model_settings.config is written empty
C25_Witness ==
    /\ x_pc.called /\ x_pc.pc = "done" /\ x_pc.painted
    /\ Len(InitialDoc.objects) = 1 /\ Len(Geometries(scene)) = 2
    /\ HasPaint(Geometries(scene)[1].metadata)
    /\ Len(Geometries(scene)[1].metadata.paint_colors) = 1
    /\ HasFilament(Geometries(scene)[2].metadata)
    /\ HasPaintAttr(Doc.objects[1].triangles[1])
    /\ ~HasPaintAttr(Doc.objects[1].triangles[2])
    /\ SettingsMembers # {} /\ SettingsEntries = <<>>

\* three objects for one geometry: only the first object is painted
C25_WitnessMoreObjects ==
    /\ x_pc.called /\ x_pc.pc = "done" /\ x_pc.painted
    /\ Len(InitialDoc.objects) = 3 /\ Len(Geometries(scene)) = 1
    /\ HasPaintAttr(Doc.objects[1].triangles[1])
    /\ Doc.objects[2] = InitialDoc.objects[2]

----------------------------------------------------------------------------
(* the pipeline stages and the objects they are handed *)

\* orient_mesh on its own, and arrange, build_plate and export_plate in a row
InitStages == InitOrient \/ InitPlate
NextStages == OrientMesh \/ Arrange \/ BuildPlate \/ ExportPlate
SpecStages == InitStages /\ [][NextStages]_vars

C26_WitnessOrient ==
    /\ o_res.called /\ o_res.exc = ""
    /\ o_res.ret[1] # o_args.mesh
    /\ o_res.arg = o_args.mesh

----------------------------------------------------------------------------
(* profiles.py: resolve_profile on an argument that looks like a path *)

\* A profile argument: its components and the separator written between
\* them ("/" or "\"); one component alone is a plain profile name.
MaxComponents == 3
PathNames == {"..", "proj", "sub", "p.json"}
ProfileArgs ==
    [sep : {"/", "\\"},
     comps : UNION {[1..k -> PathNames] : k \in 1..MaxComponents}]

\* profiles.py:39-41
_is_path(value) == Len(value.comps) > 1

\* PurePath(value).parts: "\" separates components on Windows only; on
\* POSIX a string without "/" is one file name.  A part is the sequence of the
\* names it is written with.
PathParts(value, platform) ==
    IF value.sep = "/" \/ platform = "win32" \/ Len(value.comps) = 1
    THEN [i \in 1..Len(value.comps) |-> <<value.comps[i]>>]
    ELSE <<value.comps>>

\* the directory the process runs in, and the files and directories there are
Cwd == << <<"work">> >>
ExistingPaths ==
    { <<>>, Cwd, Cwd \o << <<"proj">> >>, Cwd \o << <<"proj">>, <<"p.json">> >> }

\* Path.resolve() without symbolic links: the path is made absolute and every
\* ".." component is folded into the component before it
PathResolve(parts) ==
    LET RECURSIVE Fold(_, _)
        Fold(acc, rest) ==
            IF rest = <<>> THEN acc
            ELSE IF Head(rest) = <<"..">>
                 THEN Fold(IF acc = <<>> THEN acc ELSE SubSeq(acc, 1, Len(acc) - 1),
                           Tail(rest))
                 ELSE Fold(Append(acc, Head(rest)), Tail(rest))
    IN Fold(Cwd, parts)

HasDotDot(parts) == \E i \in 1..Len(parts) : parts[i] = <<"..">>

\* profiles.py:82-88, and 90-108 for a plain name (found when a pinned or
\* system profile of that name exists)
resolve_profile_arg(value, platform, names) ==
    IF _is_path(value)
    THEN LET path == PathResolve(PathParts(value, platform))
         IN IF HasDotDot(path)
            THEN [called |-> TRUE, exc |-> "ValueError", ret |-> <<>>]
            ELSE IF path \notin ExistingPaths
            THEN [called |-> TRUE, exc |-> "FileNotFoundError", ret |-> <<>>]
            ELSE [called |-> TRUE, exc |-> "", ret |-> <<path>>]
    ELSE IF value.comps[1] \in names
         THEN [called |-> TRUE, exc |-> "", ret |-> << << <<"profiles">>, <<value.comps[1]>> >> >>]
         ELSE [called |-> TRUE, exc |-> "FileNotFoundError", ret |-> <<>>]

\* the call  resolve_profile(name_or_path, engine, category, project_dir)
ResolveProfile ==
    /\ p_args.called /\ ~p_res.called
    /\ p_res' = resolve_profile_arg(p_args.value, p_args.platform, p_args.names)
    /\ UNCHANGED <<o_args, o_res, extruder_idx, paint_code, a_args, a_res, a_packed,
                   scene, archive, exportVars, gen, c_args, c_res, s_args, s_res, p_args>>

InitResolve ==
    /\ o_args = NotCalled /\ o_res = NotCalled
    /\ extruder_idx = -1 /\ paint_code = <<>>
    /\ a_args = NotCalled /\ a_res = NotCalled /\ a_packed = <<>>
    /\ scene = NotCalled /\ archive = NotCalled
    /\ IdleExport
    /\ gen = NotCalled
    /\ c_args = NotCalled /\ c_res = NotCalled
    /\ s_args = NotCalled /\ s_res = NotCalled
    /\ p_args \in [called : {TRUE}, value : ProfileArgs, platform : {"linux", "win32"},
                   names : {{}, {"proj"}}]
    /\ p_res = NotCalled

NextResolve == ResolveProfile

SpecResolve == InitResolve /\ [][NextResolve]_vars

\* C27: a path-like argument, one written with "/" or "\", that has a ".."
\* component is rejected with ValueError, whether or not the file exists.
C27_DotDotRejected ==
    (p_res.called /\ _is_path(p_args.value)
       /\ \E i \in 1..Len(p_args.value.comps) : p_args.value.comps[i] = "..") =>
        p_res.exc = "ValueError"

\* what the code does with such an argument: ValueError is never raised, and
\* the argument is accepted whenever the path with the ".." components folded
\* away exists
C27_DotDotFolded ==
    (p_res.called /\ _is_path(p_args.value)) =>
        /\ p_res.exc # "ValueError"
        /\ p_res.exc = "" <=>
              PathResolve(PathParts(p_args.value, p_args.platform)) \in ExistingPaths

----------------------------------------------------------------------------
(* arrange.py: names and meshes stay paired *)

\* b is a moved by one vector, with the same faces and metadata
TranslatedCopy(a, b) ==
    /\ Len(b.verts) = Len(a.verts)
    /\ b.faces = a.faces
    /\ b.metadata = a.metadata
    /\ \A i \in 1..Len(a.verts), k \in 1..3 :
          b.verts[i][k] - a.verts[i][k] = b.verts[1][k] - a.verts[1][k]

\* C28: the p-th placement arrange returns belongs to the p-th rectangle the
\* packer reported: its name is names[rid] and its mesh is a translated copy
\* of meshes[rid], for that rectangle's rid, whatever the packer's order.
C28_NameAndMeshPaired ==
    (a_res.called /\ a_res.exc = "") =>
        /\ Len(a_res.ret[1]) = Len(a_packed)
        /\ \A p \in 1..Len(a_packed) :
              /\ a_res.ret[1][p].name = a_args.names[a_packed[p].rid]
              /\ TranslatedCopy(a_args.meshes[a_packed[p].rid], a_res.ret[1][p].mesh)

\* the packer reports the second input first; the two inputs differ in name
\* and in mesh, and the first placement carries the second input's name
C28_Witness ==
    /\ a_res.called /\ a_res.exc = "" /\ Len(a_res.ret[1]) = 2
    /\ a_packed[1].rid = 2 /\ a_packed[2].rid = 1
    /\ a_args.names[1] # a_args.names[2]
    /\ a_args.meshes[1] # a_args.meshes[2]
    /\ a_res.ret[1][1].name = a_args.names[2]
    /\ ~TranslatedCopy(a_args.meshes[1], a_res.ret[1][1].mesh)

----------------------------------------------------------------------------
(* plate.py: what each pass leaves of the archive it found *)

MemberNames(ar) == {ar.members[i].name : i \in 1..Len(ar.members)}
\* every member of `old` other than those named in `except` is in `new`
\* with the same data
KeepsMembers(old, new, except) ==
    \A name \in MemberNames(old) \ except :
        name \in MemberNames(new) /\ ZipRead(new, name) = ZipRead(old, name)

\* C29: the paint pass keeps every member other than the model document, and
\* adds none; the extruder pass keeps every member, the model document
\* included, and adds model_settings.config; with paint colors and filament
\* slots in the scene the final archive has the painted document and
\* model_settings.config.
C29_PassesKeepOtherMembers ==
    (x_pc.called /\ x_pc.pc = "done") =>
        /\ x_pc.painted =>
              /\ KeepsMembers(x_pc.paint_before, x_pc.paint_after, {MODEL_PATH})
              /\ MemberNames(x_pc.paint_after) = MemberNames(x_pc.paint_before)
        /\ ExtruderGuard(Geometries(scene)) =>
              /\ KeepsMembers(x_pc.before, archive, {})
              /\ MemberNames(archive) = MemberNames(x_pc.before) \cup {SETTINGS_PATH}
              /\ ZipRead(archive, SETTINGS_PATH).kind = "config"
        /\ (PaintGuard(Geometries(scene)) /\ ExtruderGuard(Geometries(scene))) =>
              /\ x_pc.painted
              /\ Doc = PaintedTo
              /\ SETTINGS_PATH \in MemberNames(archive)

\* both passes ran: the final archive holds a document with a painted
\* triangle, a model_settings.config with an entry, and the two members
\* neither pass is about
C29_Witness ==
    /\ x_pc.called /\ x_pc.pc = "done" /\ x_pc.painted
    /\ ExtruderGuard(Geometries(scene))
    /\ \E i \in 1..Len(Doc.objects) : HasPaintAttr(Doc.objects[i].triangles[1])
    /\ Doc # PaintedFrom
    /\ Len(SettingsEntries) >= 1
    /\ MemberNames(archive) =
          {"[Content_Types].xml", "_rels/.rels", MODEL_PATH, SETTINGS_PATH}
    /\ ZipRead(archive, "_rels/.rels") = ZipRead(x_pc.paint_before, "_rels/.rels")

----------------------------------------------------------------------------
(* profiles.py: the inheritance walk of resolve_profile_data, file by file *)

\* a walk that never recognises a file it has read
AlreadySeenNever(current, chain) == FALSE

\* profiles.py:129  `if current in seen`
AlreadySeen(current, chain) == \E i \in 1..Len(chain) : chain[i] = current

WalkState(pc, current, chain, exc, ret) ==
    [called |-> TRUE, pc |-> pc, current |-> current, chain |-> chain,
     exc |-> exc, ret |-> ret]

\* profiles.py:122-126: resolve the requested profile; chain and seen are empty
WalkBegin ==
    /\ p_args.called /\ ~p_res.called
    /\ LET path == resolve_profile(p_args.name, p_args.fs)
       IN p_res' = IF path = <<>>
                   THEN WalkState("raised", <<>>, <<>>, "FileNotFoundError", <<>>)
                   ELSE WalkState("walk", path, <<>>, "", <<>>)
    /\ UNCHANGED <<o_args, o_res, extruder_idx, paint_code, a_args, a_res, a_packed,
                   scene, archive, exportVars, gen, c_args, c_res, s_args, s_res, p_args>>

\* profiles.py:128-146: one turn of the `while current` loop
WalkStep ==
    /\ p_res.called /\ p_res.pc = "walk"
    /\ IF AlreadySeen(p_res.current, p_res.chain)
       THEN p_res' = [p_res EXCEPT !.pc = "merge"]
       ELSE LET data == p_args.fs[p_res.current]
                chain == Append(p_res.chain, p_res.current)
                parent_name == IF "inherits" \in DOMAIN data THEN data["inherits"][1] ELSE ""
                sibling == <<p_res.current[1], parent_name>>
                system == <<"system", parent_name>>
            IN p_res' =
                 IF parent_name = "" THEN [p_res EXCEPT !.pc = "merge", !.chain = chain]
                 ELSE IF sibling \in DOMAIN p_args.fs
                 THEN [p_res EXCEPT !.current = sibling, !.chain = chain]
                 ELSE IF system \in DOMAIN p_args.fs
                 THEN [p_res EXCEPT !.current = system, !.chain = chain]
                 ELSE [p_res EXCEPT !.pc = "merge", !.chain = chain]
    /\ UNCHANGED <<o_args, o_res, extruder_idx, paint_code, a_args, a_res, a_packed,
                   scene, archive, exportVars, gen, c_args, c_res, s_args, s_res, p_args>>

\* profiles.py:148-153: merge the chain and return
WalkMerge ==
    /\ p_res.called /\ p_res.pc = "merge"
    /\ p_res' = [p_res EXCEPT !.pc = "returned",
                              !.ret = <<MergeChain(p_res.chain, p_args.fs)>>]
    /\ UNCHANGED <<o_args, o_res, extruder_idx, paint_code, a_args, a_res, a_packed,
                   scene, archive, exportVars, gen, c_args, c_res, s_args, s_res, p_args>>

NextWalk == WalkBegin \/ WalkStep \/ WalkMerge

SpecWalk == InitProfile /\ [][NextWalk]_vars
\* the call runs on its own thread of control: a step that can be taken is taken
SpecWalkLive == SpecWalk /\ WF_vars(NextWalk)

WalkOver == p_res.called /\ p_res.pc \in {"returned", "raised"}

Inherits(slot, parent) ==
    /\ slot \in DOMAIN p_args.fs
    /\ "inherits" \in DOMAIN p_args.fs[slot]
    /\ p_args.fs[slot]["inherits"] = <<parent>>

\* the walk file by file returns what resolve_profile_data returns
WalkAgrees ==
    WalkOver =>
        /\ p_res.exc = resolve_profile_data(p_args.name, p_args.fs).exc
        /\ p_res.ret = resolve_profile_data(p_args.name, p_args.fs).ret

C30_WitnessSelf ==
    /\ p_res.called /\ p_res.pc = "returned"
    /\ p_res.chain = << <<"pinned", "child">> >>
    /\ Inherits(<<"pinned", "child">>, "child")

C30_WitnessMissingParent ==
    /\ p_res.called /\ p_res.pc = "returned" /\ p_res.exc = ""
    /\ p_res.chain = << <<"pinned", "child">> >>
    /\ Inherits(<<"pinned", "child">>, "base")
    /\ <<"system", "base">> \notin DOMAIN p_args.fs

====
